---- MODULE Spec2Model ----
(***************************************************************************)
(* A state-machine model of the digital-twin agent pipeline:               *)
(*   agents/principal_agent.py   PrincipalAgent (router, synthesizer,      *)
(*                               orchestrator, synthesis-level rules)      *)
(*   agents/base_agent.py        BaseAgent.evaluate_quality,               *)
(*                               BaseExpertAgent.process and its guard     *)
(*   agents/quality_check_interface.py  default rules, timeliness, bands   *)
(*   agents/experts/*.py         the three expert stubs and their rules    *)
(*   utils/file_streamer.py      the JSON-array result sink                *)
(*   api/routes.py               the background task of POST /api/request  *)
(*                                                                         *)
(* Python strings are TLA+ strings; `kw in s` is a real substring test and *)
(* str.lower() a real per-character conversion.  Python dicts are records  *)
(* whose DOMAIN is the key set.  Scores and weights are integers in        *)
(* hundredths (0.75 is 75); an overall score is the exact fraction         *)
(* [num, den] of the weighted mean, so no rounding is modelled.            *)
(***************************************************************************)
EXTENDS Integers, Sequences, FiniteSets, TLC

VARIABLES
    is_initialized,      \* PrincipalAgent.is_initialized
    expert_agents,       \* keys of PrincipalAgent.expert_agents (the registry)
    expert_initialized,  \* registered experts whose own is_initialized is True
    processing_stats,    \* per expert: BaseExpertAgent.processing_stats
    workflow_history,    \* PrincipalAgent.workflow_history
    publication_queue,   \* PrincipalAgent.publication_queue
    last_call,           \* outcome of the latest orchestrator-level call
    selected,            \* return value of the latest direct router call
    file_exists,         \* Path(file_path).exists()
    file_content,        \* the JSON array stored in the sink file
    file_valid,          \* the sink file is empty or holds one well-formed array
    task_pc,             \* per background task: position in process_request_async
    task_record,         \* per background task: the response_data it writes
    task_existing,       \* per background task: existing_data of write_response
    task_result,         \* per background task: return value of write_response
    qc_metrics,          \* evaluator harness: the assessed metric list
    qc_report,           \* evaluator harness: the report built from qc_metrics
    probe                \* latest direct call of one method: its arguments and result

core_vars == <<is_initialized, expert_agents, expert_initialized, processing_stats,
               workflow_history, publication_queue, last_call, selected>>
sink_vars == <<file_exists, file_content, file_valid, task_pc, task_record, task_existing,
               task_result>>
qc_vars == <<qc_metrics, qc_report, probe>>
vars == <<core_vars, sink_vars, qc_vars>>

(***************************************************************************)
(* Strings                                                                 *)
(***************************************************************************)

\* Python `kw in s` for strings: kw occurs as a contiguous substring of s.
Contains(kw, s) ==
    \E i \in 1..(Len(s) - Len(kw) + 1) : SubSeq(s, i, i + Len(kw) - 1) = kw

UpperToLower ==
    [A |-> "a", B |-> "b", C |-> "c", D |-> "d", E |-> "e", F |-> "f", G |-> "g",
     H |-> "h", I |-> "i", J |-> "j", K |-> "k", L |-> "l", M |-> "m", N |-> "n",
     O |-> "o", P |-> "p", Q |-> "q", R |-> "r", S |-> "s", T |-> "t", U |-> "u",
     V |-> "v", W |-> "w", X |-> "x", Y |-> "y", Z |-> "z"]

\* Python str.lower() on ASCII text: every character is converted on its own;
\* the text is split in halves so that long texts need little nesting.
RECURSIVE lower(_)
lower(s) ==
    IF Len(s) = 0 THEN ""
    ELSE IF Len(s) = 1
    THEN (IF s \in DOMAIN UpperToLower THEN UpperToLower[s] ELSE s)
    ELSE LET half == Len(s) \div 2
         IN  lower(SubSeq(s, 1, half)) \o lower(SubSeq(s, half + 1, Len(s)))

\* Python any(keyword in text for keyword in keywords)
AnyIn(keywords, text) == \E i \in 1..Len(keywords) : Contains(keywords[i], text)

\* Python sum(1 for keyword in keywords if keyword in text)
CountIn(keywords, text) ==
    Cardinality({i \in 1..Len(keywords) : Contains(keywords[i], text)})

(***************************************************************************)
(* Experts, registry order and the inputs of the model                     *)
(***************************************************************************)

\* Insertion order of the registry dict built by PrincipalAgent.initialize.
ExpertOrder == <<"financial", "utility", "vehicle">>
ExpertNames == {ExpertOrder[i] : i \in 1..Len(ExpertOrder)}

\* expertise passed to BaseExpertAgent.__init__ by each expert class.
expertise ==
    [financial |-> "financial_health",
     utility   |-> "utility_management",
     vehicle   |-> "vehicle_management"]

\* name passed to BaseAgent.__init__ by each expert class.
agent_name ==
    [financial |-> "FinancialHealthExpert",
     utility   |-> "UtilityManagementExpert",
     vehicle   |-> "VehicleManagementExpert"]

\* The declared request types the model submits: the four API enum values, the
\* demo script's comprehensive type, a mixed-case spelling, types that match a
\* router keyword but no expert's own domain token, types that two experts
\* are routed and one of them accepts (the first, or the second), a type that
\* only contains the override token "all" inside another word, and the empty
\* type.
RequestTypes ==
    {"general", "utility_management", "financial_health", "vehicle_management",
     "comprehensive_analysis", "Utility_Management", "budget",
     "financial_health_fuel", "budget_vehicle_management", "install", "unknown", ""}


\* The free-text descriptions the model submits: the utility, financial and
\* multi-domain requests of scripts/qc_flow_demo.py, and the empty description.
Descriptions ==
    {"I need help optimizing my energy consumption and reducing utility bills. My electricity usage has been high and I want to implement energy efficiency measures.",
     "I need financial advice to improve my budget, reduce debt, and start investing. I have credit card debt and want to build savings.",
     "I need comprehensive analysis covering utility optimization, financial planning, and vehicle management. I want to reduce all my expenses and improve efficiency across all areas.",
     ""}

RequestIds == {"req-1"}

UserIds == {"user-1"}

\* Elapsed seconds an expert measures around its own processing.
Durations == {0, 45}

\* The Request shape of api/models.py RequestModel, as the dict handed to process.
Requests ==
    [request_id : RequestIds, user_id : UserIds, request_type : RequestTypes,
     description : Descriptions]

(***************************************************************************)
(* Python dict and list helpers                                            *)
(***************************************************************************)

\* Python d.get(k, default)
Get(d, k, default) == IF k \in DOMAIN d THEN d[k] ELSE default

\* Python sep.join(items)
RECURSIVE Join(_, _)
Join(items, sep) ==
    IF Len(items) = 0 THEN ""
    ELSE IF Len(items) = 1 THEN items[1]
    ELSE items[1] \o sep \o Join(Tail(items), sep)

\* Sum of f[i] over i in 1..n, accumulated left to right like Python's sum().
RECURSIVE SumTo(_, _)
SumTo(f, n) == IF n = 0 THEN 0 ELSE SumTo(f, n - 1) + f[n]

\* The keys of a dict that maps expert names to values, in registry order.
InOrder(names) == SelectSeq(ExpertOrder, LAMBDA e : e \in names)

(***************************************************************************)
(* Quality metric model (agents/quality_check_interface.py)                *)
(***************************************************************************)

QualityDimension ==
    {"accuracy", "completeness", "relevance", "timeliness", "consistency",
     "clarity", "actionability"}

\* QualityMetric(dimension, score, weight, description, issues, recommendations);
\* the free-text description of a metric is not modelled.
Metric(dimension, score, weight, issues, recommendations) ==
    [dimension |-> dimension, score |-> score, weight |-> weight,
     issues |-> issues, recommendations |-> recommendations]

\* An exact fraction num/den (den > 0) of two integers, in units of 1.
Frac(num, den) == [num |-> num, den |-> den]

\* frac >= h/100
FracGE(frac, h) == frac.num * 100 >= h * frac.den


(***************************************************************************)
(* Expert stubs: analysis generation (agents/experts/*_agent.py)           *)
(***************************************************************************)

\* analysis[field].append(text) for every (field, text) of adds, in order.
RECURSIVE apply_adds(_, _)
apply_adds(analysis, adds) ==
    IF Len(adds) = 0 THEN analysis
    ELSE apply_adds([analysis EXCEPT ![adds[1][1]] = Append(@, adds[1][2])],
                    Tail(adds))

\* The sequence of independent `if any(word in description_lower ...)` blocks.
RECURSIVE apply_groups(_, _, _)
apply_groups(analysis, groups, description_lower) ==
    IF Len(groups) = 0 THEN analysis
    ELSE apply_groups(
             IF AnyIn(groups[1].words, description_lower)
             THEN apply_adds(analysis, groups[1].adds)
             ELSE analysis,
             Tail(groups), description_lower)

\* generate_analysis without the general-fallback branch.
generate_analysis_no_fallback(base, groups, fallback, description) ==
    apply_groups(base, groups, lower(description))

\* The common shape of the three _generate_*_analysis methods.
generate_analysis(base, groups, fallback, description) ==
    LET description_lower == lower(description)
        analysis == apply_groups(base, groups, description_lower)
    IN  IF Len(analysis.key_issues) = 0
        THEN apply_adds(analysis, fallback)
        ELSE analysis


\* Keys of the analysis dict literal, in insertion order.
financial_fields ==
    <<"analysis_type",
      "financial_health_score",
      "key_issues",
      "budget_optimization",
      "investment_recommendations",
      "debt_management",
      "risk_assessment",
      "implementation_timeline",
      "expected_outcomes",
      "priority_actions",
      "estimated_savings",
      "risk_level">>

financial_base ==
    [analysis_type |-> "financial_health",
     financial_health_score |-> "good",
     key_issues |-> <<>>,
     budget_optimization |-> <<>>,
     investment_recommendations |-> <<>>,
     debt_management |-> <<>>,
     risk_assessment |-> <<>>,
     implementation_timeline |-> "3-12 months",
     expected_outcomes |-> <<>>,
     priority_actions |-> <<>>,
     estimated_savings |-> "10-25%",
     risk_level |-> "moderate"]

\* The keyword groups, in source order: a group applies when any of its
\* words occurs in the lower-cased description and then appends its items.
financial_groups ==
    <<[words |-> <<"budget", "spending", "expenses", "cost">>,
       adds |-> <<<<"key_issues", "Budget optimization needed">>,
                  <<"budget_optimization", "Implement 50/30/20 budgeting rule">>,
                  <<"budget_optimization", "Track all expenses for 30 days">>,
                  <<"budget_optimization", "Identify and reduce discretionary spending">>,
                  <<"expected_outcomes", "15-25% reduction in unnecessary expenses">>,
                  <<"priority_actions", "Set up expense tracking system">>>>],
      [words |-> <<"investment", "portfolio", "savings", "retirement">>,
       adds |-> <<<<"key_issues", "Investment strategy optimization needed">>,
                  <<"investment_recommendations", "Diversify investment portfolio">>,
                  <<"investment_recommendations", "Increase retirement contributions">>,
                  <<"investment_recommendations", "Consider index fund investments">>,
                  <<"expected_outcomes", "8-12% annual investment returns">>,
                  <<"priority_actions", "Review and rebalance investment portfolio">>>>],
      [words |-> <<"debt", "credit", "loan", "payment">>,
       adds |-> <<<<"key_issues", "Debt management strategy needed">>,
                  <<"debt_management", "Prioritize high-interest debt repayment">>,
                  <<"debt_management", "Consider debt consolidation options">>,
                  <<"debt_management", "Negotiate lower interest rates">>,
                  <<"expected_outcomes", "20-40% reduction in debt payments">>,
                  <<"priority_actions", "Create debt repayment plan">>>>],
      [words |-> <<"financial", "money", "finance">>,
       adds |-> <<<<"key_issues", "Comprehensive financial health improvement needed">>,
                  <<"budget_optimization", "Implement comprehensive financial planning">>,
                  <<"investment_recommendations", "Develop long-term investment strategy">>,
                  <<"debt_management", "Create debt reduction timeline">>,
                  <<"expected_outcomes", "25-35% overall financial improvement">>,
                  <<"priority_actions", "Conduct comprehensive financial audit">>>>]>>

\* The general-fallback branch (taken when key_issues is still empty).
financial_fallback ==
    <<<<"key_issues", "General financial health assessment needed">>,
      <<"budget_optimization", "Implement basic budgeting system">>,
      <<"investment_recommendations", "Start emergency fund savings">>,
      <<"debt_management", "Review all outstanding debts">>,
      <<"expected_outcomes", "10-20% overall financial improvement">>,
      <<"priority_actions", "Schedule financial health assessment">>>>

\* Keys of the analysis dict literal, in insertion order.
utility_fields ==
    <<"analysis_type",
      "key_issues",
      "optimization_opportunities",
      "cost_savings_recommendations",
      "implementation_steps",
      "expected_benefits",
      "risk_considerations",
      "technology_recommendations",
      "priority_level",
      "estimated_savings",
      "implementation_timeline">>

utility_base ==
    [analysis_type |-> "utility_management",
     key_issues |-> <<>>,
     optimization_opportunities |-> <<>>,
     cost_savings_recommendations |-> <<>>,
     implementation_steps |-> <<>>,
     expected_benefits |-> <<>>,
     risk_considerations |-> <<>>,
     technology_recommendations |-> <<>>,
     priority_level |-> "medium",
     estimated_savings |-> "5-15%",
     implementation_timeline |-> "3-6 months"]

\* The keyword groups, in source order: a group applies when any of its
\* words occurs in the lower-cased description and then appends its items.
utility_groups ==
    <<[words |-> <<"energy", "electricity", "power", "consumption">>,
       adds |-> <<<<"key_issues", "High energy consumption patterns detected">>,
                  <<"optimization_opportunities", "Implement smart energy monitoring systems">>,
                  <<"cost_savings_recommendations", "Switch to energy-efficient appliances">>,
                  <<"implementation_steps", "Conduct energy audit and identify high-consumption areas">>,
                  <<"expected_benefits", "15-25% reduction in energy costs">>,
                  <<"technology_recommendations", "Smart meters and energy monitoring devices">>>>],
      [words |-> <<"water", "usage", "bills", "leak">>,
       adds |-> <<<<"key_issues", "Water usage optimization needed">>,
                  <<"optimization_opportunities", "Install water-efficient fixtures">>,
                  <<"cost_savings_recommendations", "Implement leak detection systems">>,
                  <<"implementation_steps", "Audit water usage patterns and identify leaks">>,
                  <<"expected_benefits", "10-20% reduction in water costs">>,
                  <<"technology_recommendations", "Smart water meters and leak detectors">>>>],
      [words |-> <<"optimization", "efficiency">>,
       adds |-> <<<<"key_issues", "Overall utility efficiency improvement needed">>,
                  <<"optimization_opportunities", "Implement comprehensive utility monitoring">>,
                  <<"cost_savings_recommendations", "Bundle utility services for better rates">>,
                  <<"implementation_steps", "Develop utility management strategy and timeline">>,
                  <<"expected_benefits", "20-30% overall utility cost reduction">>,
                  <<"technology_recommendations", "Integrated utility management platform">>>>]>>

\* The general-fallback branch (taken when key_issues is still empty).
utility_fallback ==
    <<<<"key_issues", "General utility management improvement opportunity">>,
      <<"optimization_opportunities", "Implement comprehensive utility monitoring and optimization">>,
      <<"cost_savings_recommendations", "Audit all utility services for optimization opportunities">>,
      <<"implementation_steps", "Conduct comprehensive utility audit and develop optimization plan">>,
      <<"expected_benefits", "10-25% overall utility cost reduction">>,
      <<"technology_recommendations", "Smart utility monitoring and management systems">>>>

\* Keys of the analysis dict literal, in insertion order.
vehicle_fields ==
    <<"analysis_type",
      "vehicle_health_score",
      "key_issues",
      "maintenance_recommendations",
      "cost_optimization",
      "safety_improvements",
      "efficiency_enhancements",
      "implementation_timeline",
      "expected_benefits",
      "priority_actions",
      "estimated_savings",
      "risk_level">>

vehicle_base ==
    [analysis_type |-> "vehicle_management",
     vehicle_health_score |-> "good",
     key_issues |-> <<>>,
     maintenance_recommendations |-> <<>>,
     cost_optimization |-> <<>>,
     safety_improvements |-> <<>>,
     efficiency_enhancements |-> <<>>,
     implementation_timeline |-> "1-6 months",
     expected_benefits |-> <<>>,
     priority_actions |-> <<>>,
     estimated_savings |-> "15-30%",
     risk_level |-> "low"]

\* The keyword groups, in source order: a group applies when any of its
\* words occurs in the lower-cased description and then appends its items.
vehicle_groups ==
    <<[words |-> <<"maintenance", "service", "repair", "oil", "tire">>,
       adds |-> <<<<"key_issues", "Vehicle maintenance optimization needed">>,
                  <<"maintenance_recommendations", "Implement preventive maintenance schedule">>,
                  <<"maintenance_recommendations", "Regular oil changes and filter replacements">>,
                  <<"maintenance_recommendations", "Tire rotation and alignment checks">>,
                  <<"expected_benefits", "Extended vehicle lifespan and reduced repair costs">>,
                  <<"priority_actions", "Schedule comprehensive vehicle inspection">>>>],
      [words |-> <<"fuel", "gas", "mileage", "efficiency", "consumption">>,
       adds |-> <<<<"key_issues", "Fuel efficiency optimization needed">>,
                  <<"efficiency_enhancements", "Optimize driving behavior and routes">>,
                  <<"efficiency_enhancements", "Maintain proper tire pressure">>,
                  <<"efficiency_enhancements", "Reduce vehicle weight and aerodynamic drag">>,
                  <<"expected_benefits", "20-30% improvement in fuel efficiency">>,
                  <<"priority_actions", "Implement fuel tracking and monitoring system">>>>],
      [words |-> <<"cost", "budget", "expense", "insurance", "registration">>,
       adds |-> <<<<"key_issues", "Vehicle cost optimization needed">>,
                  <<"cost_optimization", "Shop around for better insurance rates">>,
                  <<"cost_optimization", "Compare fuel prices and use rewards programs">>,
                  <<"cost_optimization", "Consider carpooling or ride-sharing options">>,
                  <<"expected_benefits", "15-25% reduction in vehicle operating costs">>,
                  <<"priority_actions", "Conduct comprehensive cost analysis">>>>],
      [words |-> <<"safety", "brake", "light", "seat", "airbag">>,
       adds |-> <<<<"key_issues", "Vehicle safety improvements needed">>,
                  <<"safety_improvements", "Regular brake system inspections">>,
                  <<"safety_improvements", "Ensure all lights and signals work properly">>,
                  <<"safety_improvements", "Check seat belts and airbag systems">>,
                  <<"expected_benefits", "Enhanced vehicle and passenger safety">>,
                  <<"priority_actions", "Schedule safety inspection and repairs">>>>],
      [words |-> <<"vehicle", "car", "auto">>,
       adds |-> <<<<"key_issues", "Comprehensive vehicle management optimization needed">>,
                  <<"maintenance_recommendations", "Implement comprehensive maintenance program">>,
                  <<"cost_optimization", "Develop vehicle cost management strategy">>,
                  <<"safety_improvements", "Establish regular safety check protocols">>,
                  <<"expected_benefits", "25-35% overall vehicle cost and efficiency improvement">>,
                  <<"priority_actions", "Create comprehensive vehicle management plan">>>>]>>

\* The general-fallback branch (taken when key_issues is still empty).
vehicle_fallback ==
    <<<<"key_issues", "General vehicle management assessment needed">>,
      <<"maintenance_recommendations", "Establish regular maintenance schedule">>,
      <<"cost_optimization", "Track all vehicle-related expenses">>,
      <<"safety_improvements", "Schedule regular safety inspections">>,
      <<"expected_benefits", "10-20% overall vehicle improvement">>,
      <<"priority_actions", "Schedule comprehensive vehicle assessment">>>>

list_fields ==
    {"key_issues",
     "budget_optimization",
     "investment_recommendations",
     "debt_management",
     "risk_assessment",
     "expected_outcomes",
     "priority_actions",
     "optimization_opportunities",
     "cost_savings_recommendations",
     "implementation_steps",
     "expected_benefits",
     "risk_considerations",
     "technology_recommendations",
     "maintenance_recommendations",
     "cost_optimization",
     "safety_improvements",
     "efficiency_enhancements"}

\* Keys BaseExpertAgent.process adds to the analysis before evaluating it.
added_fields == <<"processing_time", "expert_agent", "expertise">>

\* A record keeps no insertion order: the keys of a result dict are listed in
\* the order of the dict literal of the generator its analysis_type names.
dict_keys(d) ==
    LET tag == Get(d, "analysis_type", "")
        generated ==
            IF tag = "financial_health" THEN financial_fields
            ELSE IF tag = "utility_management" THEN utility_fields
            ELSE IF tag = "vehicle_management" THEN vehicle_fields
            ELSE <<>>
    IN  SelectSeq(generated \o added_fields, LAMBDA k : k \in DOMAIN d)

\* Python repr() of one value of a result dict.
repr_value(k, v) ==
    IF k \in list_fields
    THEN "[" \o Join([i \in 1..Len(v) |-> "'" \o v[i] \o "'"], ", ") \o "]"
    ELSE IF k = "processing_time" THEN ToString(v) \o ".0"
    ELSE "'" \o v \o "'"

\* Python str(agent_result) of a result dict.
str(d) ==
    LET keys == dict_keys(d)
    IN  "{" \o Join([i \in 1..Len(keys) |->
                       "'" \o keys[i] \o "': " \o repr_value(keys[i], d[keys[i]])],
                    ", ") \o "}"

\* The `for section in required_sections` loop of assess_completeness.
MissingSections(required_sections, agent_result) ==
    SelectSeq(required_sections,
              LAMBDA section :
                  ~(section \in DOMAIN agent_result /\ Len(agent_result[section]) > 0))

(***************************************************************************)
(* Expert stubs: per-dimension scoring rules                               *)
(***************************************************************************)


financial_generate_analysis(description) ==
    generate_analysis(financial_base, financial_groups, financial_fallback, description)

financial_accuracy_keywords ==
    <<"budget", "investment", "debt", "savings", "financial", "money", "expense", "income">>

\* financial_assess_accuracy without the analysis_type check.
financial_assess_accuracy_unguarded(agent_result, original_request) ==
    LET response_text == lower(str(agent_result))
        keyword_matches == CountIn(financial_accuracy_keywords, response_text)
    IN
        IF keyword_matches >= 4
        THEN Metric("accuracy", 90, 30, <<>>, <<>>)
        ELSE IF keyword_matches >= 2
        THEN Metric("accuracy", 70, 30, <<"Limited financial-specific analysis">>, <<"Include more financial-specific recommendations">>)
        ELSE Metric("accuracy", 40, 30, <<"No financial-specific analysis provided">>, <<"Focus analysis on financial health aspects">>)

financial_assess_accuracy(agent_result, original_request) ==
    IF Get(agent_result, "analysis_type", "") # "financial_health"
    THEN Metric("accuracy", 30, 30, <<"Analysis type does not match financial health expertise">>, <<"Ensure analysis focuses on financial health aspects">>)
    ELSE LET response_text == lower(str(agent_result))
             keyword_matches == CountIn(financial_accuracy_keywords, response_text)
         IN
            IF keyword_matches >= 4
            THEN Metric("accuracy", 90, 30, <<>>, <<>>)
            ELSE IF keyword_matches >= 2
            THEN Metric("accuracy", 70, 30, <<"Limited financial-specific analysis">>, <<"Include more financial-specific recommendations">>)
            ELSE Metric("accuracy", 40, 30, <<"No financial-specific analysis provided">>, <<"Focus analysis on financial health aspects">>)

financial_required_sections ==
    <<"key_issues", "budget_optimization", "investment_recommendations", "debt_management", "expected_outcomes", "priority_actions">>

financial_assess_completeness(agent_result, original_request) ==
    LET missing_sections == MissingSections(financial_required_sections, agent_result)
    IN
        IF Len(missing_sections) = 0
        THEN Metric("completeness", 100, 20, <<>>, <<>>)
        ELSE IF Len(missing_sections) <= 2
        THEN Metric("completeness", 80, 20, <<"Missing sections: " \o Join(missing_sections, ", ")>>, <<"Add missing sections: " \o Join(missing_sections, ", ")>>)
        ELSE Metric("completeness", 50, 20, <<"Multiple missing sections: " \o Join(missing_sections, ", ")>>, <<"Complete all required analysis sections">>)

financial_request_keywords ==
    <<"financial", "money", "budget", "investment", "debt", "savings", "expense", "income">>

financial_assess_relevance(agent_result, original_request) ==
    LET description == lower(Get(original_request, "description", ""))
        request_relevance == CountIn(financial_request_keywords, description)
    IN
        IF request_relevance >= 2
        THEN Metric("relevance", 90, 20, <<>>, <<>>)
        ELSE IF request_relevance >= 1
        THEN Metric("relevance", 70, 20, <<"Request could be more financial-specific">>, <<"Clarify financial-specific requirements">>)
        ELSE Metric("relevance", 40, 20, <<"Request lacks financial-specific context">>, <<"Provide more financial-specific context in request">>)

financial_assess_consistency(agent_result, original_request) ==
    LET estimated_savings == Get(agent_result, "estimated_savings", "")
        expected_outcomes == Get(agent_result, "expected_outcomes", <<>>)
        savings_mentioned ==
            \E i \in 1..Len(expected_outcomes) :
                Contains("reduction", lower(expected_outcomes[i])) \/ Contains("%", expected_outcomes[i])
    IN
        IF Len(estimated_savings) > 0 /\ savings_mentioned
        THEN Metric("consistency", 90, 10, <<>>, <<>>)
        ELSE IF Len(estimated_savings) > 0 \/ savings_mentioned
        THEN Metric("consistency", 70, 10, <<"Savings estimates not consistently mentioned">>, <<"Ensure savings estimates are consistent throughout">>)
        ELSE Metric("consistency", 50, 10, <<"No savings estimates provided">>, <<"Include consistent savings estimates">>)

financial_assess_clarity(agent_result, original_request) ==
    LET priority_actions == Get(agent_result, "priority_actions", <<>>)
        implementation_timeline == Get(agent_result, "implementation_timeline", "")
    IN
        IF Len(priority_actions) >= 2 /\ Len(implementation_timeline) > 0
        THEN Metric("clarity", 90, 5, <<>>, <<>>)
        ELSE IF Len(priority_actions) >= 1
        THEN Metric("clarity", 70, 5, <<"Limited implementation guidance">>, <<"Provide more detailed priority actions and timeline">>)
        ELSE Metric("clarity", 40, 5, <<"No implementation guidance provided">>, <<"Include clear priority actions and timeline">>)

financial_assess_actionability(agent_result, original_request) ==
    LET budget_optimization == Get(agent_result, "budget_optimization", <<>>)
        investment_recommendations == Get(agent_result, "investment_recommendations", <<>>)
        debt_management == Get(agent_result, "debt_management", <<>>)
        total_recommendations ==
            Len(budget_optimization) + Len(investment_recommendations) + Len(debt_management)
    IN
        IF total_recommendations >= 4
        THEN Metric("actionability", 90, 5, <<>>, <<>>)
        ELSE IF total_recommendations >= 2
        THEN Metric("actionability", 70, 5, <<"Limited actionable recommendations">>, <<"Provide more specific actionable recommendations">>)
        ELSE Metric("actionability", 40, 5, <<"No actionable recommendations provided">>, <<"Include specific actionable recommendations">>)

financial_get_quality_threshold == 75

utility_generate_analysis(description) ==
    generate_analysis(utility_base, utility_groups, utility_fallback, description)

utility_accuracy_keywords ==
    <<"energy", "water", "electricity", "gas", "utility", "consumption", "efficiency">>

utility_assess_accuracy(agent_result, original_request) ==
    IF Get(agent_result, "analysis_type", "") # "utility_management"
    THEN Metric("accuracy", 30, 30, <<"Analysis type does not match utility management expertise">>, <<"Ensure analysis focuses on utility management aspects">>)
    ELSE LET response_text == lower(str(agent_result))
             keyword_matches == CountIn(utility_accuracy_keywords, response_text)
         IN
            IF keyword_matches >= 3
            THEN Metric("accuracy", 90, 30, <<>>, <<>>)
            ELSE IF keyword_matches >= 1
            THEN Metric("accuracy", 70, 30, <<"Limited utility-specific analysis">>, <<"Include more utility-specific recommendations">>)
            ELSE Metric("accuracy", 40, 30, <<"No utility-specific analysis provided">>, <<"Focus analysis on utility management aspects">>)

utility_required_sections ==
    <<"key_issues", "optimization_opportunities", "cost_savings_recommendations", "implementation_steps", "expected_benefits">>

utility_assess_completeness(agent_result, original_request) ==
    LET missing_sections == MissingSections(utility_required_sections, agent_result)
    IN
        IF Len(missing_sections) = 0
        THEN Metric("completeness", 100, 20, <<>>, <<>>)
        ELSE IF Len(missing_sections) <= 2
        THEN Metric("completeness", 80, 20, <<"Missing sections: " \o Join(missing_sections, ", ")>>, <<"Add missing sections: " \o Join(missing_sections, ", ")>>)
        ELSE Metric("completeness", 50, 20, <<"Multiple missing sections: " \o Join(missing_sections, ", ")>>, <<"Complete all required analysis sections">>)

utility_request_keywords ==
    <<"utility", "energy", "water", "electricity", "gas", "bills", "consumption">>

utility_assess_relevance(agent_result, original_request) ==
    LET description == lower(Get(original_request, "description", ""))
        request_relevance == CountIn(utility_request_keywords, description)
    IN
        IF request_relevance >= 2
        THEN Metric("relevance", 90, 20, <<>>, <<>>)
        ELSE IF request_relevance >= 1
        THEN Metric("relevance", 70, 20, <<"Request could be more utility-specific">>, <<"Clarify utility-specific requirements">>)
        ELSE Metric("relevance", 40, 20, <<"Request lacks utility-specific context">>, <<"Provide more utility-specific context in request">>)

utility_assess_consistency(agent_result, original_request) ==
    LET estimated_savings == Get(agent_result, "estimated_savings", "")
        expected_benefits == Get(agent_result, "expected_benefits", <<>>)
        savings_mentioned ==
            \E i \in 1..Len(expected_benefits) :
                Contains("reduction", lower(expected_benefits[i])) \/ Contains("%", expected_benefits[i])
    IN
        IF Len(estimated_savings) > 0 /\ savings_mentioned
        THEN Metric("consistency", 90, 10, <<>>, <<>>)
        ELSE IF Len(estimated_savings) > 0 \/ savings_mentioned
        THEN Metric("consistency", 70, 10, <<"Savings estimates not consistently mentioned">>, <<"Ensure savings estimates are consistent throughout">>)
        ELSE Metric("consistency", 50, 10, <<"No savings estimates provided">>, <<"Include consistent savings estimates">>)

utility_assess_clarity(agent_result, original_request) ==
    LET implementation_steps == Get(agent_result, "implementation_steps", <<>>)
    IN
        IF Len(implementation_steps) >= 3
        THEN Metric("clarity", 90, 5, <<>>, <<>>)
        ELSE IF Len(implementation_steps) >= 1
        THEN Metric("clarity", 70, 5, <<"Limited implementation guidance">>, <<"Provide more detailed implementation steps">>)
        ELSE Metric("clarity", 40, 5, <<"No implementation guidance provided">>, <<"Include clear implementation steps">>)

utility_assess_actionability(agent_result, original_request) ==
    LET cost_savings_recommendations == Get(agent_result, "cost_savings_recommendations", <<>>)
        technology_recommendations == Get(agent_result, "technology_recommendations", <<>>)
        total_recommendations ==
            Len(cost_savings_recommendations) + Len(technology_recommendations)
    IN
        IF total_recommendations >= 3
        THEN Metric("actionability", 90, 5, <<>>, <<>>)
        ELSE IF total_recommendations >= 1
        THEN Metric("actionability", 70, 5, <<"Limited actionable recommendations">>, <<"Provide more specific actionable recommendations">>)
        ELSE Metric("actionability", 40, 5, <<"No actionable recommendations provided">>, <<"Include specific actionable recommendations">>)

utility_get_quality_threshold == 70

vehicle_generate_analysis(description) ==
    generate_analysis(vehicle_base, vehicle_groups, vehicle_fallback, description)

vehicle_accuracy_keywords ==
    <<"maintenance", "fuel", "safety", "cost", "vehicle", "car", "tire", "oil", "brake">>

vehicle_assess_accuracy(agent_result, original_request) ==
    IF Get(agent_result, "analysis_type", "") # "vehicle_management"
    THEN Metric("accuracy", 30, 30, <<"Analysis type does not match vehicle management expertise">>, <<"Ensure analysis focuses on vehicle management aspects">>)
    ELSE LET response_text == lower(str(agent_result))
             keyword_matches == CountIn(vehicle_accuracy_keywords, response_text)
         IN
            IF keyword_matches >= 4
            THEN Metric("accuracy", 90, 30, <<>>, <<>>)
            ELSE IF keyword_matches >= 2
            THEN Metric("accuracy", 70, 30, <<"Limited vehicle-specific analysis">>, <<"Include more vehicle-specific recommendations">>)
            ELSE Metric("accuracy", 40, 30, <<"No vehicle-specific analysis provided">>, <<"Focus analysis on vehicle management aspects">>)

vehicle_required_sections ==
    <<"key_issues", "maintenance_recommendations", "cost_optimization", "safety_improvements", "expected_benefits", "priority_actions">>

vehicle_assess_completeness(agent_result, original_request) ==
    LET missing_sections == MissingSections(vehicle_required_sections, agent_result)
    IN
        IF Len(missing_sections) = 0
        THEN Metric("completeness", 100, 20, <<>>, <<>>)
        ELSE IF Len(missing_sections) <= 2
        THEN Metric("completeness", 80, 20, <<"Missing sections: " \o Join(missing_sections, ", ")>>, <<"Add missing sections: " \o Join(missing_sections, ", ")>>)
        ELSE Metric("completeness", 50, 20, <<"Multiple missing sections: " \o Join(missing_sections, ", ")>>, <<"Complete all required analysis sections">>)

vehicle_request_keywords ==
    <<"vehicle", "car", "auto", "maintenance", "fuel", "safety", "cost", "tire", "oil">>

vehicle_assess_relevance(agent_result, original_request) ==
    LET description == lower(Get(original_request, "description", ""))
        request_relevance == CountIn(vehicle_request_keywords, description)
    IN
        IF request_relevance >= 2
        THEN Metric("relevance", 90, 20, <<>>, <<>>)
        ELSE IF request_relevance >= 1
        THEN Metric("relevance", 70, 20, <<"Request could be more vehicle-specific">>, <<"Clarify vehicle-specific requirements">>)
        ELSE Metric("relevance", 40, 20, <<"Request lacks vehicle-specific context">>, <<"Provide more vehicle-specific context in request">>)

vehicle_assess_consistency(agent_result, original_request) ==
    LET estimated_savings == Get(agent_result, "estimated_savings", "")
        expected_benefits == Get(agent_result, "expected_benefits", <<>>)
        savings_mentioned ==
            \E i \in 1..Len(expected_benefits) :
                Contains("reduction", lower(expected_benefits[i])) \/ Contains("%", expected_benefits[i])
    IN
        IF Len(estimated_savings) > 0 /\ savings_mentioned
        THEN Metric("consistency", 90, 10, <<>>, <<>>)
        ELSE IF Len(estimated_savings) > 0 \/ savings_mentioned
        THEN Metric("consistency", 70, 10, <<"Savings estimates not consistently mentioned">>, <<"Ensure savings estimates are consistent throughout">>)
        ELSE Metric("consistency", 50, 10, <<"No savings estimates provided">>, <<"Include consistent savings estimates">>)

vehicle_assess_clarity(agent_result, original_request) ==
    LET priority_actions == Get(agent_result, "priority_actions", <<>>)
        implementation_timeline == Get(agent_result, "implementation_timeline", "")
    IN
        IF Len(priority_actions) >= 2 /\ Len(implementation_timeline) > 0
        THEN Metric("clarity", 90, 5, <<>>, <<>>)
        ELSE IF Len(priority_actions) >= 1
        THEN Metric("clarity", 70, 5, <<"Limited implementation guidance">>, <<"Provide more detailed priority actions and timeline">>)
        ELSE Metric("clarity", 40, 5, <<"No implementation guidance provided">>, <<"Include clear priority actions and timeline">>)

vehicle_assess_actionability(agent_result, original_request) ==
    LET maintenance_recommendations == Get(agent_result, "maintenance_recommendations", <<>>)
        cost_optimization == Get(agent_result, "cost_optimization", <<>>)
        safety_improvements == Get(agent_result, "safety_improvements", <<>>)
        total_recommendations ==
            Len(maintenance_recommendations) + Len(cost_optimization) + Len(safety_improvements)
    IN
        IF total_recommendations >= 4
        THEN Metric("actionability", 90, 5, <<>>, <<>>)
        ELSE IF total_recommendations >= 2
        THEN Metric("actionability", 70, 5, <<"Limited actionable recommendations">>, <<"Provide more specific actionable recommendations">>)
        ELSE Metric("actionability", 40, 5, <<"No actionable recommendations provided">>, <<"Include specific actionable recommendations">>)

vehicle_get_quality_threshold == 65

(***************************************************************************)
(* Quality evaluator (QualityCheckInterface, BaseAgent)                    *)
(***************************************************************************)

\* The components that own a rule set and a threshold.  "default" is a
\* BaseAgent subclass that overrides no rule and no threshold.
Components == {"financial", "utility", "vehicle", "principal", "default"}

\* assess_timeliness with the issue raised past the satisfactory threshold.
assess_timeliness_late_issue(agent_result, original_request) ==
    LET processing_time == Get(agent_result, "processing_time", 0)
        score == IF processing_time <= 5 THEN 100
                 ELSE IF processing_time <= 15 THEN 80
                 ELSE IF processing_time <= 30 THEN 60
                 ELSE IF processing_time <= 60 THEN 40
                 ELSE 20
        slow == processing_time > 30
    IN  Metric("timeliness", score, 10,
               IF slow
               THEN <<"Response time (" \o ToString(processing_time)
                      \o ".00s) exceeds optimal threshold">>
               ELSE <<>>,
               IF slow
               THEN <<"Consider optimizing agent processing logic">>
               ELSE <<>>)

\* QualityCheckInterface.assess_timeliness: shared by every component.
assess_timeliness(agent_result, original_request) ==
    LET processing_time == Get(agent_result, "processing_time", 0)
        score == IF processing_time <= 5 THEN 100
                 ELSE IF processing_time <= 15 THEN 80
                 ELSE IF processing_time <= 30 THEN 60
                 ELSE IF processing_time <= 60 THEN 40
                 ELSE 20
        slow == processing_time > 15
    IN  Metric("timeliness", score, 10,
               IF slow
               THEN <<"Response time (" \o ToString(processing_time)
                      \o ".00s) exceeds optimal threshold">>
               ELSE <<>>,
               IF slow
               THEN <<"Consider optimizing agent processing logic">>
               ELSE <<>>)

\* QualityCheckInterface.assess_<dimension>: the rule of a dimension that the
\* owning component does not override.
default_assess(dimension) ==
    CASE dimension = "accuracy" ->
             Metric("accuracy", 50, 30, <<"Accuracy assessment not customized">>,
                    <<"Implement custom accuracy assessment">>)
      [] dimension = "completeness" ->
             Metric("completeness", 50, 20, <<"Completeness assessment not customized">>,
                    <<"Implement custom completeness assessment">>)
      [] dimension = "relevance" ->
             Metric("relevance", 50, 20, <<"Relevance assessment not customized">>,
                    <<"Implement custom relevance assessment">>)
      [] dimension = "consistency" ->
             Metric("consistency", 50, 10, <<"Consistency assessment not customized">>,
                    <<"Implement custom consistency assessment">>)
      [] dimension = "clarity" ->
             Metric("clarity", 50, 5, <<"Clarity assessment not customized">>,
                    <<"Implement custom clarity assessment">>)
      [] dimension = "actionability" ->
             Metric("actionability", 50, 5, <<"Actionability assessment not customized">>,
                    <<"Implement custom actionability assessment">>)

\* QualityScore: the tiers of the expert band set, lowest first.
QualityScore == <<"poor", "needs_improvement", "satisfactory", "good", "excellent">>

\* determine_quality_level with the two middle bands exchanged.
determine_quality_level_swapped(score) ==
    IF FracGE(score, 90) THEN "excellent"
    ELSE IF FracGE(score, 80) THEN "satisfactory"
    ELSE IF FracGE(score, 70) THEN "good"
    ELSE IF FracGE(score, 60) THEN "needs_improvement"
    ELSE "poor"

\* QualityCheckInterface.determine_quality_level
determine_quality_level(score) ==
    IF FracGE(score, 90) THEN "excellent"
    ELSE IF FracGE(score, 80) THEN "good"
    ELSE IF FracGE(score, 70) THEN "satisfactory"
    ELSE IF FracGE(score, 60) THEN "needs_improvement"
    ELSE "poor"

\* The tiers of the orchestrator band set, lowest first.
PrincipalLevels == <<"POOR", "ACCEPTABLE", "GOOD", "VERY_GOOD", "EXCELLENT">>

\* PrincipalAgent.determine_quality_level
principal_determine_quality_level(overall_score) ==
    IF FracGE(overall_score, 90) THEN "EXCELLENT"
    ELSE IF FracGE(overall_score, 80) THEN "VERY_GOOD"
    ELSE IF FracGE(overall_score, 70) THEN "GOOD"
    ELSE IF FracGE(overall_score, 60) THEN "ACCEPTABLE"
    ELSE "POOR"

\* BaseAgent.get_quality_metrics: the dimensions evaluated, in order.
base_get_quality_metrics ==
    <<"accuracy", "completeness", "relevance", "timeliness", "consistency",
      "clarity", "actionability">>

\* PrincipalAgent.get_quality_metrics: the dimensions evaluated, in order.
principal_get_quality_metrics ==
    <<"accuracy", "completeness", "relevance", "consistency", "clarity",
      "actionability">>

\* BaseAgent.get_quality_threshold
base_get_quality_threshold == 60

\* PrincipalAgent.get_quality_threshold
principal_get_quality_threshold == 70

\* The fixed publication floor of BaseAgent.evaluate_quality.
PublicationFloor == 70

\* An overall score that ignores the weights: the plain mean of the scores.
calculate_overall_score_unweighted(metrics) ==
    IF Len(metrics) = 0 THEN Frac(0, 1)
    ELSE Frac(SumTo([i \in 1..Len(metrics) |-> metrics[i].score], Len(metrics)),
              100 * Len(metrics))

\* BaseAgent._calculate_overall_score
calculate_overall_score(metrics) ==
    IF Len(metrics) = 0 THEN Frac(0, 1)
    ELSE LET total_weight ==
                 SumTo([i \in 1..Len(metrics) |-> metrics[i].weight], Len(metrics))
         IN  IF total_weight = 0 THEN Frac(0, 1)
             ELSE LET weighted_sum ==
                          SumTo([i \in 1..Len(metrics) |->
                                    metrics[i].score * metrics[i].weight],
                                Len(metrics))
                  IN  Frac(weighted_sum, 100 * total_weight)

\* sum(len(metric.issues) for metric in assessed_metrics)
total_issues_of(metrics) ==
    SumTo([i \in 1..Len(metrics) |-> Len(metrics[i].issues)], Len(metrics))

\* sum(len(metric.recommendations) for metric in assessed_metrics)
total_recommendations_of(metrics) ==
    SumTo([i \in 1..Len(metrics) |-> Len(metrics[i].recommendations)], Len(metrics))

\* QualityCheckInterface.generate_summary; the formatted score is not modelled.
generate_summary(metrics, overall_score) ==
    "Quality Assessment: " \o determine_quality_level(overall_score)
    \o "\nTotal Issues Found: " \o ToString(total_issues_of(metrics))
    \o "\nTotal Recommendations: " \o ToString(total_recommendations_of(metrics))
    \o "\n"
    \o (IF total_issues_of(metrics) = 0
        THEN "No quality issues detected. Results are ready for publication."
        ELSE "Quality issues detected. Review recommended before publication.")

\* PrincipalAgent.generate_summary
principal_generate_summary(metrics, overall_score) ==
    IF FracGE(overall_score, 80)
    THEN "High-quality synthesis with comprehensive expert analysis"
    ELSE IF FracGE(overall_score, 70)
    THEN "Good quality synthesis meeting publication standards"
    ELSE IF FracGE(overall_score, 60)
    THEN "Acceptable synthesis with some quality concerns"
    ELSE "Poor quality synthesis requiring review before publication"


(***************************************************************************)
(* Synthesis-level rules: the assess_ methods of PrincipalAgent            *)
(***************************************************************************)

\* max(0.0, score)
Max0(score) == IF score < 0 THEN 0 ELSE score

\* Python truth value of synthesis[field]: insights is a dict, summary a str
\* and recommendations a list.
FieldTruthy(field, value) ==
    IF field = "insights" THEN DOMAIN value # {} ELSE Len(value) > 0

\* A count of failures that finds none.
WithError_none(expert_results) == {}

\* The results of a dict of expert results that carry an "error" key.
WithError(expert_results) ==
    {k \in DOMAIN expert_results : "error" \in DOMAIN expert_results[k]}

principal_assess_accuracy(agent_result, original_request) ==
    LET expert_results == Get(agent_result, "expert_results", <<>>)
        failed_experts == WithError(expert_results)
        synthesis == Get(agent_result, "synthesis", <<>>)
        s1 == IF DOMAIN expert_results = {} THEN 80 - 30 ELSE 80
        s2 == IF failed_experts # {} THEN s1 - 20 * Cardinality(failed_experts) ELSE s1
        s3 == IF "error" \in DOMAIN synthesis THEN s2 - 40 ELSE s2
    IN  Metric("accuracy", Max0(s3), 25, <<>>, <<>>)

\* A completeness rule that finds no required field missing.
principal_assess_completeness_none_missing(agent_result, original_request) ==
    Metric("completeness", 90, 25, <<>>, <<>>)

principal_assess_completeness(agent_result, original_request) ==
    LET synthesis == Get(agent_result, "synthesis", <<>>)
        required_fields == <<"summary", "insights", "recommendations">>
        missing == {i \in 1..Len(required_fields) :
                       \/ required_fields[i] \notin DOMAIN synthesis
                       \/ ~FieldTruthy(required_fields[i], synthesis[required_fields[i]])}
    IN  Metric("completeness", Max0(90 - 20 * Cardinality(missing)), 25, <<>>, <<>>)

principal_assess_relevance(agent_result, original_request) ==
    LET request_type == lower(Get(original_request, "request_type", ""))
        synthesis == Get(agent_result, "synthesis", <<>>)
        summary == Get(synthesis, "summary", "")
        off_topic == /\ Len(request_type) > 0
                     /\ Len(summary) > 0
                     /\ ~Contains(request_type, lower(summary))
    IN  Metric("relevance", Max0(IF off_topic THEN 85 - 20 ELSE 85), 20, <<>>, <<>>)

\* all_recommendations of assess_consistency: the recommendations of the
\* successful results, concatenated.
RECURSIVE ConcatRecommendations(_, _)
ConcatRecommendations(expert_results, keys) ==
    IF Len(keys) = 0 THEN <<>>
    ELSE Get(expert_results[keys[1]], "recommendations", <<>>)
         \o ConcatRecommendations(expert_results, Tail(keys))

principal_assess_consistency(agent_result, original_request) ==
    LET expert_results == Get(agent_result, "expert_results", <<>>)
        successful_experts == (DOMAIN expert_results) \ WithError(expert_results)
        all_recommendations ==
            ConcatRecommendations(expert_results, InOrder(successful_experts))
        redundant ==
            /\ Cardinality(successful_experts) > 1
            /\ Cardinality({all_recommendations[i] : i \in 1..Len(all_recommendations)})
                   < Len(all_recommendations)
    IN  Metric("consistency", Max0(IF redundant THEN 80 - 10 ELSE 80), 15, <<>>, <<>>)

principal_assess_clarity(agent_result, original_request) ==
    LET synthesis == Get(agent_result, "synthesis", <<>>)
        summary == Get(synthesis, "summary", "")
    IN  Metric("clarity", Max0(IF Len(summary) < 50 THEN 85 - 20 ELSE 85), 10, <<>>, <<>>)

principal_assess_actionability(agent_result, original_request) ==
    LET synthesis == Get(agent_result, "synthesis", <<>>)
        recommendations_list == Get(synthesis, "recommendations", <<>>)
    IN  Metric("actionability",
               Max0(IF Len(recommendations_list) = 0 THEN 80 - 30 ELSE 80), 5, <<>>, <<>>)


(***************************************************************************)
(* BaseAgent.evaluate_quality                                              *)
(***************************************************************************)

\* The assess_<dimension> method that `self` resolves to for a component.
assess(component, dimension, agent_result, original_request) ==
    IF dimension = "timeliness" THEN assess_timeliness(agent_result, original_request)
    ELSE CASE component = "financial" ->
                 (CASE dimension = "accuracy" -> financial_assess_accuracy(agent_result, original_request)
                    [] dimension = "completeness" -> financial_assess_completeness(agent_result, original_request)
                    [] dimension = "relevance" -> financial_assess_relevance(agent_result, original_request)
                    [] dimension = "consistency" -> financial_assess_consistency(agent_result, original_request)
                    [] dimension = "clarity" -> financial_assess_clarity(agent_result, original_request)
                    [] dimension = "actionability" -> financial_assess_actionability(agent_result, original_request))
           [] component = "utility" ->
                 (CASE dimension = "accuracy" -> utility_assess_accuracy(agent_result, original_request)
                    [] dimension = "completeness" -> utility_assess_completeness(agent_result, original_request)
                    [] dimension = "relevance" -> utility_assess_relevance(agent_result, original_request)
                    [] dimension = "consistency" -> utility_assess_consistency(agent_result, original_request)
                    [] dimension = "clarity" -> utility_assess_clarity(agent_result, original_request)
                    [] dimension = "actionability" -> utility_assess_actionability(agent_result, original_request))
           [] component = "vehicle" ->
                 (CASE dimension = "accuracy" -> vehicle_assess_accuracy(agent_result, original_request)
                    [] dimension = "completeness" -> vehicle_assess_completeness(agent_result, original_request)
                    [] dimension = "relevance" -> vehicle_assess_relevance(agent_result, original_request)
                    [] dimension = "consistency" -> vehicle_assess_consistency(agent_result, original_request)
                    [] dimension = "clarity" -> vehicle_assess_clarity(agent_result, original_request)
                    [] dimension = "actionability" -> vehicle_assess_actionability(agent_result, original_request))
           [] component = "principal" ->
                 (CASE dimension = "accuracy" -> principal_assess_accuracy(agent_result, original_request)
                    [] dimension = "completeness" -> principal_assess_completeness(agent_result, original_request)
                    [] dimension = "relevance" -> principal_assess_relevance(agent_result, original_request)
                    [] dimension = "consistency" -> principal_assess_consistency(agent_result, original_request)
                    [] dimension = "clarity" -> principal_assess_clarity(agent_result, original_request)
                    [] dimension = "actionability" -> principal_assess_actionability(agent_result, original_request))
           [] component = "default" -> default_assess(dimension)

\* self.get_quality_metrics() for a component.
get_quality_metrics(component) ==
    IF component = "principal" THEN principal_get_quality_metrics
    ELSE base_get_quality_metrics

\* self.get_quality_threshold() for a component.
get_quality_threshold(component) ==
    CASE component = "financial" -> financial_get_quality_threshold
      [] component = "utility" -> utility_get_quality_threshold
      [] component = "vehicle" -> vehicle_get_quality_threshold
      [] component = "principal" -> principal_get_quality_threshold
      [] component = "default" -> base_get_quality_threshold

\* self.name of a component.
component_name(component) ==
    IF component \in ExpertNames THEN agent_name[component]
    ELSE IF component = "principal" THEN "PrincipalAgent"
    ELSE "BaseAgent"

\* evaluate_quality, first half: one assessed metric per configured dimension.
assess_metrics(component, agent_result, original_request) ==
    LET metrics == get_quality_metrics(component)
    IN  [i \in 1..Len(metrics) |->
            assess(component, metrics[i], agent_result, original_request)]

\* passed_threshold = overall_score >= threshold
passes_threshold(overall_score, threshold) == FracGE(overall_score, threshold)

\* A publication approval that looks at the component threshold alone.
publication_approval_threshold_only(passed_threshold, overall_score) ==
    passed_threshold

\* approved_for_publication = passed_threshold and overall_score >= 0.7
publication_approval(passed_threshold, overall_score) ==
    passed_threshold /\ FracGE(overall_score, PublicationFloor)

\* evaluate_quality, second half: the report built from the assessed metrics
\* (overall score, threshold, approval, level, summary, totals).
build_report(component, assessed_metrics, original_request) ==
    LET overall_score == calculate_overall_score(assessed_metrics)
        threshold == get_quality_threshold(component)
        passed_threshold == passes_threshold(overall_score, threshold)
        approved_for_publication ==
            publication_approval(passed_threshold, overall_score)
    IN  [agent_name |-> component_name(component),
         request_id |-> Get(original_request, "request_id", "unknown"),
         overall_score |-> overall_score,
         quality_level |->
             IF component = "principal"
             THEN principal_determine_quality_level(overall_score)
             ELSE determine_quality_level(overall_score),
         metrics |-> assessed_metrics,
         summary |->
             IF component = "principal"
             THEN principal_generate_summary(assessed_metrics, overall_score)
             ELSE generate_summary(assessed_metrics, overall_score),
         passed_threshold |-> passed_threshold,
         approved_for_publication |-> approved_for_publication,
         total_issues |-> total_issues_of(assessed_metrics),
         total_recommendations |-> total_recommendations_of(assessed_metrics)]

\* BaseAgent.evaluate_quality
evaluate_quality(component, agent_result, original_request) ==
    build_report(component,
                 assess_metrics(component, agent_result, original_request),
                 original_request)

(***************************************************************************)
(* BaseExpertAgent                                                         *)
(***************************************************************************)

\* processing_stats of a freshly constructed expert.  The rolling
\* average_processing_time is not modelled.
fresh_stats ==
    [total_requests |-> 0, successful_requests |-> 0, failed_requests |-> 0,
     quality_scores |-> <<>>]

\* Override tokens without the comprehensive one.
multi_domain_keywords_no_comprehensive ==
    <<"multi_domain", "all", "general", "overview">>

multi_domain_keywords ==
    <<"comprehensive_analysis", "multi_domain", "all", "general", "overview">>

\* A guard that accepts an expert's own domain only.
can_handle_request_own_domain_only(e, request_data) ==
    Contains(lower(expertise[e]), lower(Get(request_data, "request_type", "")))

\* BaseExpertAgent._can_handle_request; expertise.lower().replace(" ", "_")
\* leaves the three expertise strings as they are.
can_handle_request(e, request_data) ==
    LET request_type == lower(Get(request_data, "request_type", ""))
    IN  IF AnyIn(multi_domain_keywords, request_type) THEN TRUE
        ELSE Contains(lower(expertise[e]), request_type)

\* self._expert_process(request_data) of expert e.
expert_generate(e, request_data) ==
    LET description == Get(request_data, "description", "")
    IN  CASE e = "financial" -> financial_generate_analysis(description)
          [] e = "utility" -> utility_generate_analysis(description)
          [] e = "vehicle" -> vehicle_generate_analysis(description)

\* The request-dependent part of BaseExpertAgent.process of expert e measuring
\* dur seconds: the guard, and when it passes the analysis with its timing
\* fields and embedded quality report.
expert_attempt(e, request_data, dur) ==
    IF ~can_handle_request(e, request_data)
    THEN [raised |-> TRUE,
          error |-> "Request type " \o Get(request_data, "request_type", "None")
                    \o " not suitable for " \o expertise[e] \o " expert"]
    ELSE LET result == expert_generate(e, request_data)
                       @@ [processing_time |-> dur,
                           expert_agent |-> agent_name[e],
                           expertise |-> expertise[e]]
             quality_report == evaluate_quality(e, result, request_data)
         IN  [raised |-> FALSE,
              result |-> result @@ [quality_report |-> quality_report]]

\* expert_attempt tabulated over the inputs of the model, so that it is
\* evaluated once per input.
expert_attempts ==
    [e \in ExpertNames |-> [request_id \in RequestIds |-> [user_id \in UserIds |->
        [request_type \in RequestTypes |-> [description \in Descriptions |->
            [dur \in Durations |->
                expert_attempt(e, [request_id |-> request_id, user_id |-> user_id,
                                   request_type |-> request_type,
                                   description |-> description], dur)]]]]]]

\* Counters that skip total_requests when the guard rejects the request.
expert_counted_accepted_only(stats, attempt) ==
    IF attempt.raised
    THEN [raised |-> TRUE, error |-> attempt.error,
          stats |-> [stats EXCEPT !.failed_requests = @ + 1]]
    ELSE [raised |-> FALSE, result |-> attempt.result,
          stats |-> [stats EXCEPT
                        !.total_requests = @ + 1,
                        !.successful_requests = @ + 1,
                        !.quality_scores =
                            Append(@, attempt.result.quality_report.overall_score)]]

\* Counters that count a success without storing its quality score.
expert_counted_unscored(stats, attempt) ==
    LET counted == [stats EXCEPT !.total_requests = @ + 1]
    IN  IF attempt.raised
        THEN [raised |-> TRUE, error |-> attempt.error,
              stats |-> [counted EXCEPT !.failed_requests = @ + 1]]
        ELSE [raised |-> FALSE, result |-> attempt.result,
              stats |-> [counted EXCEPT !.successful_requests = @ + 1]]

\* The counters of BaseExpertAgent.process around one attempt: total_requests
\* first, then failed_requests in the except, or successful_requests and the
\* stored quality score.
expert_counted(stats, attempt) ==
    LET counted == [stats EXCEPT !.total_requests = @ + 1]
    IN  IF attempt.raised
        THEN [raised |-> TRUE, error |-> attempt.error,
              stats |-> [counted EXCEPT !.failed_requests = @ + 1]]
        ELSE [raised |-> FALSE, result |-> attempt.result,
              stats |-> [counted EXCEPT
                            !.successful_requests = @ + 1,
                            !.quality_scores =
                                Append(@, attempt.result.quality_report.overall_score)]]

\* BaseExpertAgent.process of expert e with counters stats, measuring dur
\* seconds: whether it raised, what it returned and the counters afterwards.
expert_process(e, stats, request_data, dur) ==
    expert_counted(stats,
                   IF request_data \in Requests /\ dur \in Durations
                   THEN expert_attempts[e][request_data.request_id]
                            [request_data.user_id][request_data.request_type]
                            [request_data.description][dur]
                   ELSE expert_attempt(e, request_data, dur))


(***************************************************************************)
(* PrincipalAgent: router, delegation, synthesizer, orchestration          *)
(***************************************************************************)

\* The per-expert keyword lists of _determine_required_experts.
router_keywords ==
    [financial |-> <<"financial", "budget", "cost", "expense", "revenue", "profit">>,
     utility   |-> <<"utility", "energy", "water", "electricity", "consumption",
                     "efficiency", "sustainability">>,
     vehicle   |-> <<"vehicle", "fleet", "maintenance", "transport", "logistics",
                     "fuel">>]

\* A router without the fallback: nothing is selected when no keyword matches.
determine_required_experts_no_fallback(registry, request_data) ==
    LET request_type == lower(Get(request_data, "request_type", ""))
        matched == {e \in ExpertNames :
                       AnyIn(router_keywords[e], request_type) /\ e \in registry}
    IN  [required |-> InOrder(matched), expert_agents |-> registry]

\* A router that takes the selected experts out of the registry.
determine_required_experts_consuming(registry, request_data) ==
    LET request_type == lower(Get(request_data, "request_type", ""))
        matched == {e \in ExpertNames :
                       AnyIn(router_keywords[e], request_type) /\ e \in registry}
        required == IF matched # {} THEN matched ELSE registry
    IN  [required |-> InOrder(required), expert_agents |-> registry \ required]

\* PrincipalAgent._determine_required_experts on the registry keys registry:
\* the keys of the returned dict, in order, and the registry as the call
\* leaves it (the method assigns nothing to self and copies on fallback).
determine_required_experts(registry, request_data) ==
    LET request_type == lower(Get(request_data, "request_type", ""))
        matched == {e \in ExpertNames :
                       AnyIn(router_keywords[e], request_type) /\ e \in registry}
    IN  [required |->
             IF registry = {} THEN <<>>
             ELSE IF matched # {} THEN InOrder(matched)
             ELSE InOrder(registry),
         expert_agents |-> registry]

\* A delegation step that lets an expert's exception escape the loop.
expert_slot_reraising(expert_name, outcome) ==
    IF outcome.raised
    THEN [escapes |-> TRUE,
          slot |-> [error |-> outcome.error, expert_agent |-> expert_name,
                    status |-> "failed"]]
    ELSE [escapes |-> FALSE, slot |-> outcome.result]

\* The try/except around one expert of step 2 of process: the slot stored for
\* the expert and whether the exception escapes the loop (it never does:
\* `except Exception` catches every failure of expert_agent.process).
expert_slot(expert_name, outcome) ==
    IF outcome.raised
    THEN [escapes |-> FALSE,
          slot |-> [error |-> outcome.error, expert_agent |-> expert_name,
                    status |-> "failed"]]
    ELSE [escapes |-> FALSE, slot |-> outcome.result]

\* Step 2 of process: delegate to the required experts in dict order.
RECURSIVE delegate(_, _, _, _, _)
RECURSIVE delegate_rest(_, _, _, _, _, _)
delegate(required, stats, request_data, dur, expert_results) ==
    IF Len(required) = 0
    THEN [escaped |-> FALSE, expert_results |-> expert_results, stats |-> stats]
    ELSE delegate_rest(required, stats, request_data, dur, expert_results,
                       expert_process(required[1], stats[required[1]],
                                      request_data, dur))

\* One iteration of the delegation loop once the first required expert has
\* ended with outcome: store its slot, then go on with the others.
delegate_rest(required, stats, request_data, dur, expert_results, outcome) ==
    LET expert_name == required[1]
        handled == expert_slot(expert_name, outcome)
        stats1 == [stats EXCEPT ![expert_name] = outcome.stats]
    IN  IF handled.escapes
        THEN [escaped |-> TRUE, expert_results |-> expert_results, stats |-> stats1]
        ELSE delegate(Tail(required), stats1, request_data, dur,
                      expert_results @@ (expert_name :> handled.slot))

\* A merge that drops a recommendation an earlier expert already gave.
RECURSIVE extend_recommendations_dedup(_, _)
extend_recommendations_dedup(expert_results, keys) ==
    IF Len(keys) = 0 THEN <<>>
    ELSE LET earlier == extend_recommendations_dedup(expert_results,
                                                     SubSeq(keys, 1, Len(keys) - 1))
             last == expert_results[keys[Len(keys)]]
             given == IF "error" \notin DOMAIN last
                      THEN Get(last, "recommendations", <<>>)
                      ELSE <<>>
         IN  earlier \o SelectSeq(given, LAMBDA r :
                                     \A i \in 1..Len(earlier) : earlier[i] # r)

\* recommendations.extend(result["recommendations"]) over the results without
\* an error key, in iteration order.
RECURSIVE extend_recommendations(_, _)
extend_recommendations(expert_results, keys) ==
    IF Len(keys) = 0 THEN <<>>
    ELSE (IF "error" \notin DOMAIN expert_results[keys[1]]
          THEN Get(expert_results[keys[1]], "recommendations", <<>>)
          ELSE <<>>)
         \o extend_recommendations(expert_results, Tail(keys))

\* A record holds no None: a result dict whose recommendations value is None
\* is written without the recommendations key and with the key none_valued
\* listing "recommendations".
none_valued(result) ==
    LET keys == Get(result, "none_valued", <<>>)
    IN  {keys[i] : i \in 1..Len(keys)}

\* The try body of _synthesize_results raises: recommendations.extend(None)
\* on a result without an error key is a TypeError.
synthesis_raises(expert_results) ==
    \E k \in DOMAIN expert_results :
        /\ "error" \notin DOMAIN expert_results[k]
        /\ "recommendations" \in none_valued(expert_results[k])

\* The except branch of _synthesize_results: the degraded synthesis.
synthesis_failed ==
    [error |-> "Failed to synthesize results: 'NoneType' object is not iterable",
     summary |-> "Synthesis failed"]

\* PrincipalAgent._synthesize_results
synthesize_results(request_data, expert_results) ==
    LET names == DOMAIN expert_results
        ok == names \ WithError(expert_results)
        with_insights == {k \in ok : "insights" \in DOMAIN expert_results[k]}
        with_metrics == {k \in ok : "metrics" \in DOMAIN expert_results[k]}
    IN  IF synthesis_raises(expert_results)
        THEN synthesis_failed
        ELSE [summary |-> "Analysis completed by " \o ToString(Cardinality(names))
                          \o " expert agents",
              insights |-> [k \in with_insights |-> expert_results[k].insights],
              recommendations |-> extend_recommendations(expert_results, InOrder(names)),
              metrics |-> [k \in with_metrics |-> expert_results[k].metrics],
              expert_count |-> Cardinality(names),
              successful_experts |-> Cardinality(ok),
              failed_experts |-> Cardinality(WithError(expert_results))]

\* PrincipalAgent._publish_results: FileStreamer defines write_response,
\* write_response_sync and get_responses but no stream_data, so the attribute
\* lookup raises AttributeError inside the try, which logs and re-raises.
\* Nothing reaches the sink.
publish_results(final_result) ==
    [raised |-> TRUE,
     error |-> "'FileStreamer' object has no attribute 'stream_data'",
     persisted |-> FALSE]

\* PrincipalAgent.process from the final response to the return: build the
\* response, log the workflow, and on approval queue and publish; an
\* exception of the publication step reaches the outer except, which logs and
\* re-raises.
finish_process(st, request_data, dur, required_experts, expert_results, synthesis_result, quality_report) ==
    LET final_response ==
            [request_id |-> Get(request_data, "request_id", "unknown"),
             request_type |-> Get(request_data, "request_type", "unknown"),
             status |-> "completed",
             processing_time |-> dur * Len(required_experts),
             principal_agent |-> "PrincipalAgent",
             expert_results |-> expert_results,
             synthesis |-> synthesis_result,
             quality_report |-> quality_report,
             approved_for_publication |-> quality_report.approved_for_publication]
        logged == Append(st.workflow_history,
                         [request_id |-> Get(request_data, "request_id", "unknown"),
                          experts_used |-> required_experts,
                          quality_score |-> quality_report.overall_score,
                          approved |-> quality_report.approved_for_publication])
        published == publish_results(final_response)
    IN  IF quality_report.approved_for_publication
        THEN LET st2 == [st EXCEPT !.workflow_history = logged,
                                   !.publication_queue = Append(@, final_response)]
             IN  IF published.raised
                 THEN [outcome |-> "raised", error |-> published.error,
                       response |-> <<>>, persisted |-> published.persisted,
                       st |-> st2]
                 ELSE [outcome |-> "returned", error |-> "",
                       response |-> final_response,
                       persisted |-> published.persisted, st |-> st2]
        ELSE [outcome |-> "returned", error |-> "", response |-> final_response,
              persisted |-> FALSE,
              st |-> [st EXCEPT !.workflow_history = logged]]

\* Steps 4 to 6 of process, for the synthesis synthesis_result.
process_synthesized(st, request_data, dur, required_experts, expert_results, synthesis_result) ==
    finish_process(st, request_data, dur, required_experts, expert_results,
                   synthesis_result,
                   evaluate_quality("principal", synthesis_result, request_data))

\* Steps 3 to 6 of process, after the delegation loop ended as delegated.
process_delegated(st, request_data, dur, required_experts, delegated) ==
    LET st1 == [st EXCEPT !.processing_stats = delegated.stats]
    IN  IF delegated.escaped
        THEN [outcome |-> "raised", error |-> "expert failure", response |-> <<>>,
              persisted |-> FALSE, st |-> st1]
        ELSE process_synthesized(st1, request_data, dur, required_experts,
                                 delegated.expert_results,
                                 synthesize_results(request_data,
                                                    delegated.expert_results))

\* PrincipalAgent.process after the initialization check: route, delegate,
\* synthesize, evaluate the synthesis, finish.
process_steps(st, request_data, dur) ==
    LET routed == determine_required_experts(st.expert_agents, request_data)
    IN  process_delegated([st EXCEPT !.expert_agents = routed.expert_agents],
                          request_data, dur, routed.required,
                          delegate(routed.required, st.processing_stats,
                                   request_data, dur, <<>>))

\* A process that runs the pipeline without the initialization check.
principal_process_unchecked(st, request_data, dur) ==
    process_steps(st, request_data, dur)

\* PrincipalAgent.process: the initialization check, then the pipeline.
principal_process(st, request_data, dur) ==
    IF ~st.is_initialized
    THEN [outcome |-> "raised", error |-> "Principal agent is not initialized",
          response |-> <<>>, persisted |-> FALSE, st |-> st]
    ELSE process_steps(st, request_data, dur)

\* The fields of the orchestrator object that process reads and writes.
principal_state ==
    [is_initialized |-> is_initialized, expert_agents |-> expert_agents,
     processing_stats |-> processing_stats, workflow_history |-> workflow_history,
     publication_queue |-> publication_queue]


(***************************************************************************)
(* State machine: the orchestrator object and its callers                  *)
(***************************************************************************)

\* Calls of process, of the router, of an expert and of the publication step
\* that one behaviour makes.
MaxCalls == 2

\* last_call before any call.
NoCall ==
    [n |-> 0, op |-> "none", expert |-> "", registry |-> {}, outcome |-> "none",
     error |-> "", request |-> <<>>, response |-> <<>>]

CoreInit ==
    /\ is_initialized = FALSE
    /\ expert_agents = {}
    /\ expert_initialized = {}
    /\ processing_stats = [e \in ExpertNames |-> fresh_stats]
    /\ workflow_history = <<>>
    /\ publication_queue = <<>>
    /\ last_call = NoCall
    /\ selected = <<>>

\* PrincipalAgent.initialize on the orchestrator fields st.  base_ok:
\* super().initialize() did not raise (a failure is logged and re-raised before
\* anything is assigned).  created: the expert classes whose construction
\* succeeded (the others are logged, set to None and filtered out).  Every
\* created expert is a new object with fresh counters.
principal_initialize(st, base_ok, created) ==
    IF ~base_ok
    THEN [raised |-> TRUE, st |-> st]
    ELSE [raised |-> FALSE,
          st |-> [st EXCEPT !.is_initialized = TRUE,
                            !.expert_agents = created,
                            !.processing_stats = [e \in ExpertNames |-> fresh_stats]]]

\* One call of PrincipalAgent.initialize.  inited: the created experts whose
\* own initialize() succeeded (a failure is logged and the expert stays
\* registered).
Initialize(base_ok, created, inited) ==
    /\ inited \subseteq created
    /\ LET boot == principal_initialize(principal_state, base_ok, created)
       IN  /\ is_initialized' = boot.st.is_initialized
           /\ expert_agents' = boot.st.expert_agents
           /\ processing_stats' = boot.st.processing_stats
           /\ expert_initialized' = IF boot.raised THEN expert_initialized ELSE inited
    /\ UNCHANGED <<workflow_history, publication_queue, last_call, selected>>
    /\ UNCHANGED <<sink_vars, qc_vars>>

\* PrincipalAgent.cleanup: every registered expert's cleanup(), then
\* BaseAgent.cleanup; the registry and the histories are kept.
Cleanup ==
    /\ expert_initialized' = {}
    /\ is_initialized' = FALSE
    /\ UNCHANGED <<expert_agents, processing_stats, workflow_history,
                   publication_queue, last_call, selected>>
    /\ UNCHANGED <<sink_vars, qc_vars>>

\* The effect of one finished call of process on the orchestrator, on the
\* sink (only a publication that persisted adds its payload) and on last_call.
Returned(op, request_data, done) ==
    /\ expert_agents' = done.st.expert_agents
    /\ processing_stats' = done.st.processing_stats
    /\ workflow_history' = done.st.workflow_history
    /\ publication_queue' = done.st.publication_queue
    /\ file_exists' = (file_exists \/ done.persisted)
    /\ file_content' = IF done.persisted THEN Append(file_content, done.response)
                       ELSE file_content
    /\ last_call' = [n |-> last_call.n + 1, op |-> op, expert |-> "",
                     registry |-> expert_agents,
                     outcome |-> done.outcome, error |-> done.error,
                     request |-> request_data, response |-> done.response]
    /\ UNCHANGED <<is_initialized, expert_initialized, selected>>
    /\ UNCHANGED <<file_valid, task_pc, task_record, task_existing, task_result>>
    /\ UNCHANGED qc_vars

\* One call of PrincipalAgent.process(request_data); the call has no await
\* that suspends, so it is one step.
Process(request_data, dur) ==
    /\ last_call.n < MaxCalls
    /\ Returned("process", request_data,
                principal_process(principal_state, request_data, dur))

\* The part of process that follows the synthesis-level evaluation, on an
\* initialized orchestrator, for a synthesis whose assessed metrics are
\* assessed_metrics: the report is built from them as evaluate_quality builds
\* it, then the response is finished as process finishes it.
FinishProcess(request_data, assessed_metrics) ==
    /\ last_call.n < MaxCalls
    /\ is_initialized
    /\ LET synthesis_result == synthesize_results(request_data, <<>>)
           quality_report == build_report("principal", assessed_metrics, request_data)
       IN  Returned("finish", request_data,
                    finish_process(principal_state, request_data, 0, <<>>, <<>>,
                                   synthesis_result, quality_report))

\* One direct call of PrincipalAgent._determine_required_experts.
SelectExperts(request_data) ==
    /\ last_call.n < MaxCalls
    /\ LET routed == determine_required_experts(expert_agents, request_data)
       IN  /\ selected' = routed.required
           /\ expert_agents' = routed.expert_agents
    /\ last_call' = [n |-> last_call.n + 1, op |-> "select", expert |-> "",
                     registry |-> expert_agents, outcome |-> "returned",
                     error |-> "", request |-> request_data, response |-> <<>>]
    /\ UNCHANGED <<is_initialized, expert_initialized, processing_stats,
                   workflow_history, publication_queue>>
    /\ UNCHANGED <<sink_vars, qc_vars>>

\* One direct call of a registered expert's process.
ExpertProcess(e, request_data, dur) ==
    /\ last_call.n < MaxCalls
    /\ e \in expert_agents
    /\ LET outcome == expert_process(e, processing_stats[e], request_data, dur)
       IN  /\ processing_stats' = [processing_stats EXCEPT ![e] = outcome.stats]
           /\ last_call' = [n |-> last_call.n + 1, op |-> "expert", expert |-> e,
                            registry |-> expert_agents,
                            outcome |-> IF outcome.raised THEN "raised" ELSE "returned",
                            error |-> IF outcome.raised THEN outcome.error ELSE "",
                            request |-> request_data,
                            response |-> IF outcome.raised THEN <<>> ELSE outcome.result]
    /\ UNCHANGED <<is_initialized, expert_agents, expert_initialized,
                   workflow_history, publication_queue, selected>>
    /\ UNCHANGED <<sink_vars, qc_vars>>

\* The part of process that follows the delegation loop, on an initialized
\* orchestrator, for the expert_results the loop collected from the experts
\* in required_experts: synthesize, evaluate the synthesis, finish.
ProcessFrom(request_data, expert_results) ==
    /\ last_call.n < MaxCalls
    /\ is_initialized
    /\ Returned("process_from", request_data,
                process_synthesized(principal_state, request_data, 0,
                                    InOrder(DOMAIN expert_results), expert_results,
                                    synthesize_results(request_data, expert_results)))

(***************************************************************************)
(* The result sink (utils/file_streamer.py) and the background task of     *)
(* POST /api/request (api/routes.py)                                       *)
(***************************************************************************)

\* Background tasks one behaviour starts; a task's number is its processing_id.
MaxTasks == 2
Tasks == 1..MaxTasks

\* The requests posted to /api/request: one every expert accepts, one routed
\* to a single expert, and one whose only selected expert rejects it.
SinkRequests ==
    {r \in Requests :
        /\ r.request_type \in {"general", "utility_management", "budget"}
        /\ r.description = ""}

\* Elapsed seconds an expert measures inside a background task.
TaskDurations == {0}

\* The clock is read as one instant: datetime.utcnow().isoformat() carries no
\* offset, datetime.now(UTC).isoformat() carries "+00:00".
utcnow_isoformat == "2025-06-28T17:00:00"
now_utc_isoformat == "2025-06-28T17:00:00+00:00"

SinkInit ==
    /\ file_exists = FALSE
    /\ file_content = <<>>
    /\ file_valid = TRUE
    /\ task_pc = [t \in Tasks |-> "idle"]
    /\ task_record = [t \in Tasks |-> <<>>]
    /\ task_existing = [t \in Tasks |-> <<>>]
    /\ task_result = [t \in Tasks |-> "none"]

\* submit_request: the request is handed to a background task and accepted.
SubmitRequest(t, request_data) ==
    /\ task_pc[t] = "idle"
    /\ task_pc' = [task_pc EXCEPT ![t] = "accepted"]
    /\ task_record' = [task_record EXCEPT ![t] = request_data]
    /\ UNCHANGED <<file_exists, file_content, file_valid, task_existing, task_result>>
    /\ UNCHANGED <<core_vars, qc_vars>>

\* response_data / error_response of process_request_async.
response_record(t, request_data, done) ==
    IF done.outcome = "returned"
    THEN [processing_id |-> t, request_id |-> request_data.request_id,
          user_id |-> request_data.user_id,
          request_type |-> request_data.request_type,
          status |-> "completed", result |-> done.response,
          processing_time |-> Get(done.response, "processing_time", 0),
          timestamp |-> utcnow_isoformat]
    ELSE [processing_id |-> t, request_id |-> request_data.request_id,
          user_id |-> request_data.user_id,
          request_type |-> request_data.request_type,
          status |-> "error", error |-> done.error,
          timestamp |-> utcnow_isoformat]

\* The effect on the orchestrator of the call a task made, ended as done, and
\* the record the task hands to write_response.
TaskRan(t, done) ==
    /\ is_initialized' = done.st.is_initialized
    /\ expert_agents' = done.st.expert_agents
    /\ processing_stats' = done.st.processing_stats
    /\ workflow_history' = done.st.workflow_history
    /\ publication_queue' = done.st.publication_queue
    /\ task_record' = [task_record EXCEPT ![t] = response_record(t, task_record[t], done)]

\* process_request_async up to its call of write_response: initialize the
\* orchestrator if it is not initialized, process the request, and build the
\* completed record or, on any exception, the error record.  Nothing in this
\* part suspends, so it is one step.
RunTask(t, dur, base_ok, created, inited) ==
    /\ task_pc[t] = "accepted"
    /\ inited \subseteq created
    /\ is_initialized =>
           base_ok /\ created = expert_agents /\ inited = expert_initialized
    /\ LET boot == IF is_initialized
                   THEN [raised |-> FALSE, st |-> principal_state]
                   ELSE principal_initialize(principal_state, base_ok, created)
       IN  /\ expert_initialized' =
                  IF is_initialized \/ boot.raised THEN expert_initialized ELSE inited
           /\ TaskRan(t, IF boot.raised
                         THEN [outcome |-> "raised", error |-> "initialize failed",
                               response |-> <<>>, persisted |-> FALSE, st |-> boot.st]
                         ELSE principal_process(boot.st, task_record[t], dur))
    /\ task_pc' = [task_pc EXCEPT ![t] = "write"]
    /\ UNCHANGED <<last_call, selected>>
    /\ UNCHANGED <<file_exists, file_content, file_valid, task_existing, task_result>>
    /\ UNCHANGED qc_vars

\* response_data["timestamp"] = datetime.now(UTC).isoformat(): the key is
\* set, replacing a value the caller put there.
stamped(response_data) ==
    [k \in DOMAIN response_data \cup {"timestamp"} |->
        IF k = "timestamp" THEN now_utc_isoformat ELSE response_data[k]]

\* write_response, to its first suspension: the timestamp, existing_data = []
\* and the Path.exists() test; an existing file is opened for reading.
WriteBegin(t) ==
    /\ task_pc[t] = "write"
    /\ task_record' = [task_record EXCEPT ![t] = stamped(@)]
    /\ task_existing' = [task_existing EXCEPT ![t] = <<>>]
    /\ task_pc' = [task_pc EXCEPT ![t] = IF file_exists THEN "read" ELSE "append"]
    /\ UNCHANGED <<file_exists, file_content, file_valid, task_result>>
    /\ UNCHANGED <<core_vars, qc_vars>>

\* write_response: content = await f.read(); an empty file leaves
\* existing_data = [], a malformed one makes json.loads raise, which the
\* except turns into the return value False.
WriteRead(t) ==
    /\ task_pc[t] = "read"
    /\ IF file_valid
       THEN /\ task_existing' = [task_existing EXCEPT ![t] = file_content]
            /\ task_pc' = [task_pc EXCEPT ![t] = "append"]
            /\ UNCHANGED task_result
       ELSE /\ task_pc' = [task_pc EXCEPT ![t] = "done"]
            /\ task_result' = [task_result EXCEPT ![t] = "False"]
            /\ UNCHANGED task_existing
    /\ UNCHANGED <<file_exists, file_content, file_valid, task_record>>
    /\ UNCHANGED <<core_vars, qc_vars>>

\* write_response: existing_data.append(response_data), then open(path, 'w'),
\* which creates or truncates the file.
WriteOpen(t) ==
    /\ task_pc[t] = "append"
    /\ task_existing' = [task_existing EXCEPT ![t] = Append(@, task_record[t])]
    /\ file_exists' = TRUE
    /\ file_content' = <<>>
    /\ file_valid' = TRUE
    /\ task_pc' = [task_pc EXCEPT ![t] = "opened"]
    /\ UNCHANGED <<task_record, task_result>>
    /\ UNCHANGED <<core_vars, qc_vars>>

\* write_response: await f.write(json.dumps(existing_data)) at offset 0 of
\* the handle, then return True.  If another writer has written since this
\* handle truncated the file, the bytes are laid over that writer's: the
\* result is this task's array when it is at least as long as the other's and
\* a malformed document otherwise; serialised lengths are not modelled, so
\* longer_or_equal is an input.
WriteFlush(t, longer_or_equal) ==
    /\ task_pc[t] = "opened"
    /\ IF file_content = <<>> /\ file_valid
       THEN /\ file_content' = task_existing[t]
            /\ file_valid' = TRUE
       ELSE IF longer_or_equal
       THEN /\ file_content' = task_existing[t]
            /\ file_valid' = TRUE
       ELSE /\ file_content' = <<>>
            /\ file_valid' = FALSE
    /\ task_pc' = [task_pc EXCEPT ![t] = "done"]
    /\ task_result' = [task_result EXCEPT ![t] = "True"]
    /\ UNCHANGED <<file_exists, task_record, task_existing>>
    /\ UNCHANGED <<core_vars, qc_vars>>


\* Python's responses[start:] for a list: a negative start counts from the
\* end and is clamped at the front, a start past the end gives [].
slice_from(responses, start) ==
    LET n == Len(responses)
        first == IF start < 0 THEN (IF n + start < 0 THEN 0 ELSE n + start)
                 ELSE (IF start > n THEN n ELSE start)
    IN  SubSeq(responses, first + 1, n)

\* FileStreamer.get_responses(limit) on a file in the given state: [] for no
\* file, an empty file or a malformed one (the except), else
\* responses[-limit:].
get_responses(exists, valid, content, limit) ==
    IF ~exists \/ ~valid THEN <<>>
    ELSE slice_from(content, 0 - limit)

\* Largest limit passed to get_responses.
MaxLimit == 3

\* One call of FileStreamer.get_responses(limit).  The result is fixed by one
\* look at the file: the exists() test when there is no file, the read
\* otherwise.
GetResponses(limit) ==
    /\ probe' = [op |-> "get_responses", limit |-> limit,
                 exists |-> file_exists, valid |-> file_valid,
                 stored |-> file_content,
                 result |-> get_responses(file_exists, file_valid, file_content, limit)]
    /\ UNCHANGED <<core_vars, sink_vars, qc_metrics, qc_report>>

(***************************************************************************)
(* The evaluator applied to arbitrary assessed metrics                     *)
(***************************************************************************)

\* QualityReport.get_weighted_score over the metrics of a report.
get_weighted_score(metrics) ==
    IF Len(metrics) = 0 THEN Frac(0, 1)
    ELSE LET total_weight ==
                 SumTo([i \in 1..Len(metrics) |-> metrics[i].weight], Len(metrics))
         IN  IF total_weight = 0 THEN Frac(0, 1)
             ELSE Frac(SumTo([i \in 1..Len(metrics) |->
                                 metrics[i].score * metrics[i].weight],
                             Len(metrics)),
                       100 * total_weight)

\* Longest list of assessed metrics handed to the evaluator.
MaxMetrics == 2

\* Metric scores and weights, in hundredths: the ends of the score range and
\* the values around the four component thresholds and the publication floor.
MetricScores == {0, 60, 65, 70, 75, 100}
MetricWeights == {0, 10, 30}

\* The assessed metrics an overriding rule set can return.
AssessedMetrics ==
    UNION {[1..n -> {Metric("accuracy", s, w, <<>>, <<>>) :
                        s \in MetricScores, w \in MetricWeights}] : n \in 0..MaxMetrics}

\* No evaluation yet.  An evaluation reads nothing but its arguments, so a
\* behaviour of the harness evaluates one list.
NoReport == [component |-> "none"]

\* No direct call of a method yet.
NoProbe == [op |-> "none"]

QcInit ==
    /\ qc_metrics = <<>>
    /\ qc_report = NoReport
    /\ probe = NoProbe

\* The second half of evaluate_quality of a component applied to a list of
\* assessed metrics, and get_weighted_score of the report it builds.
EvaluateMetrics(component, assessed_metrics) ==
    /\ qc_report = NoReport
    /\ qc_metrics' = assessed_metrics
    /\ qc_report' =
           LET report == build_report(component, assessed_metrics,
                                      [request_id |-> "req-1"])
           IN  [component |-> component, report |-> report,
                weighted_score |-> get_weighted_score(report.metrics)]
    /\ UNCHANGED <<core_vars, sink_vars, probe>>


(***************************************************************************)
(* Methods called on their own                                             *)
(***************************************************************************)

\* Values of one entry of expert_results: the error slot process stores for a
\* failed expert, an analysis with no recommendations key, analyses with an
\* empty list, one and two recommendations, of which one string is shared,
\* and an entry that carries both an error key and recommendations.  The
\* except branch of _synthesize_results needs an entry that is no dict or
\* whose recommendations cannot be iterated; no expert returns one, and the
\* entries here keep to dicts and lists.
ExpertResultShapes ==
    {[error |-> "failure", expert_agent |-> "expert", status |-> "failed"],
     [analysis_type |-> "utility_management"],
     [recommendations |-> <<>>],
     [recommendations |-> <<"Switch to energy-efficient appliances">>],
     [recommendations |-> <<"Track all expenses for 30 days",
                            "Switch to energy-efficient appliances">>],
     [error |-> "failure", recommendations |-> <<"Retry later">>]}

\* The expert_results dicts handed to the synthesizer.
SynthesisInputs ==
    UNION {[names -> ExpertResultShapes] : names \in SUBSET ExpertNames}

\* One direct call of PrincipalAgent._synthesize_results.
Synthesize(request_data, expert_results) ==
    /\ probe' = [op |-> "synthesize", expert_results |-> expert_results,
                 synthesis |-> synthesize_results(request_data, expert_results)]
    /\ UNCHANGED <<core_vars, sink_vars, qc_metrics, qc_report>>

\* The scores handed to the banding: every multiple of 1/ScoreSteps in 0..1.
ScoreSteps == 200
BandScores == {Frac(n, ScoreSteps) : n \in 0..ScoreSteps}

\* One direct call of determine_quality_level on a component: the
\* orchestrator overrides the method, every other component inherits it.
DetermineQualityLevel(component, score) ==
    /\ probe' = [op |-> "determine_quality_level", component |-> component,
                 score |-> score,
                 level |-> IF component = "principal"
                           THEN principal_determine_quality_level(score)
                           ELSE determine_quality_level(score)]
    /\ UNCHANGED <<core_vars, sink_vars, qc_metrics, qc_report>>

\* The results handed to the timeliness rule: a result with no
\* processing_time key, and one for every whole number of seconds up to
\* MaxSeconds.
MaxSeconds == 120
TimedResults ==
    {[status |-> "success"]}
        \cup {[status |-> "success", processing_time |-> d] : d \in 0..MaxSeconds}

\* One direct call of QualityCheckInterface.assess_timeliness.
AssessTimeliness(agent_result, original_request) ==
    /\ probe' = [op |-> "assess_timeliness", agent_result |-> agent_result,
                 metric |-> assess_timeliness(agent_result, original_request)]
    /\ UNCHANGED <<core_vars, sink_vars, qc_metrics, qc_report>>

\* The results handed to an accuracy rule: the analysis a generator builds for
\* a description, with the fields BaseExpertAgent.process adds, as built or
\* with its analysis_type key taken away.
AccuracyResults ==
    LET built ==
            {expert_generate(g, [description |-> description])
                 @@ [processing_time |-> dur, expert_agent |-> agent_name[g],
                     expertise |-> expertise[g]] :
             g \in ExpertNames, description \in Descriptions, dur \in Durations}
    IN  built \cup {[k \in DOMAIN r \ {"analysis_type"} |-> r[k]] : r \in built}

\* One direct call of the assess_accuracy override of expert e.
AssessAccuracy(e, agent_result, original_request) ==
    /\ probe' = [op |-> "assess_accuracy", e |-> e, agent_result |-> agent_result,
                 metric |-> assess(e, "accuracy", agent_result, original_request)]
    /\ UNCHANGED <<core_vars, sink_vars, qc_metrics, qc_report>>

\* Values of one entry of the expert_results the delegation loop hands to the
\* synthesizer: the error slot of a failed expert, an analysis with two
\* recommendations, and an analysis whose recommendations value is None.
DelegatedShapes ==
    {[error |-> "failure", expert_agent |-> "expert", status |-> "failed"],
     [recommendations |-> <<"Track all expenses for 30 days",
                            "Switch to energy-efficient appliances">>],
     [analysis_type |-> "utility_management", none_valued |-> <<"recommendations">>]}

\* The expert_results dicts the delegation loop can end with.
DelegatedInputs ==
    UNION {[names -> DelegatedShapes] : names \in SUBSET ExpertNames}

\* One word of each keyword group of each generator, in source order; one
\* word is in upper case, and some words belong to groups of two generators.
TriggerWords ==
    [financial |-> <<"budget", "PORTFOLIO", "loan", "money">>,
     utility   |-> <<"energy", "water", "efficiency">>,
     vehicle   |-> <<"repair", "fuel", "insurance", "brake", "car">>]

\* The descriptions handed to a generator: for every generator and every
\* choice among its trigger words, the chosen words separated by blanks.
GroupDescriptions ==
    {Join(SelectSeq(TriggerWords[g], LAMBDA w : w \in chosen), " ") :
         <<g, chosen>> \in
             UNION {{g2} \X SUBSET {TriggerWords[g2][i] : i \in 1..Len(TriggerWords[g2])} :
                        g2 \in ExpertNames}}

\* One direct call of the _generate_*_analysis method of expert e.
GenerateAnalysis(e, description) ==
    /\ probe' = [op |-> "generate_analysis", e |-> e, description |-> description,
                 analysis |-> expert_generate(e, [description |-> description])]
    /\ UNCHANGED <<core_vars, sink_vars, qc_metrics, qc_report>>

(***************************************************************************)
(* Specifications                                                          *)
(***************************************************************************)

Init == CoreInit /\ SinkInit /\ QcInit

\* Startup, re-initialization and shutdown.  The experts are configured from
\* one shared setting, so their own initialize calls are taken to succeed or
\* fail together.
Lifecycle ==
    \/ \E base_ok \in BOOLEAN, created \in SUBSET ExpertNames :
           \E inited \in {{}, created} : Initialize(base_ok, created, inited)
    \/ Cleanup

\* The requests handed to process: with the empty description, two types every
\* expert accepts, one routed to a single expert, two routed to two experts of
\* which one rejects it, and one no keyword matches; and the demo script's
\* utility request.
PipelineRequests ==
    {r \in Requests :
        \/ /\ r.description = ""
           /\ r.request_type \in {"general", "comprehensive_analysis",
                                  "utility_management",
                                  "financial_health_fuel",
                                  "budget_vehicle_management", "unknown"}
        \/ /\ r.request_type = "utility_management"
           /\ Contains("electricity", r.description)}

\* The orchestrator and its process.
Next ==
    \/ Lifecycle
    \/ \E request_data \in PipelineRequests, dur \in Durations :
           Process(request_data, dur)

Spec == Init /\ [][Next]_vars

\* The assessed metric lists of at most one metric, of full weight, with a
\* score below, at and above the publication floor.
ShortMetrics ==
    {m \in AssessedMetrics :
        /\ Len(m) <= 1
        /\ \A i \in 1..Len(m) : m[i].weight = 30 /\ m[i].score \in {65, 70, 100}}

\* The orchestrator, its process, and the end of process for any synthesis
\* report.
NextPublish ==
    \/ Lifecycle
    \/ \E request_data \in SinkRequests, dur \in TaskDurations :
           Process(request_data, dur)
    \/ \E request_data \in SinkRequests, assessed_metrics \in ShortMetrics :
           FinishProcess(request_data, assessed_metrics)

SpecPublish == Init /\ [][NextPublish]_vars

\* The requests handed to the router: every request type.
RouterRequests == {r \in Requests : r.description = ""}

\* The router called on its own.
NextRouter ==
    \/ Lifecycle
    \/ \E request_data \in RouterRequests : SelectExperts(request_data)

SpecRouter == Init /\ [][NextRouter]_vars

\* The requests handed to an expert: every request type with the empty
\* description, and every description with the types that all experts or one
\* expert accept.
ExpertRequests ==
    {r \in Requests :
        \/ r.description = ""
        \/ r.request_type \in {"general", "utility_management", "financial_health",
                               "vehicle_management"}}

\* The experts called on their own.
NextExpert ==
    \/ Lifecycle
    \/ \E e \in ExpertNames, request_data \in ExpertRequests, dur \in Durations :
           ExpertProcess(e, request_data, dur)

SpecExpert == Init /\ [][NextExpert]_vars

\* The HTTP service: background tasks that process and write to the sink.
NextSink ==
    \E t \in Tasks :
        \/ \E request_data \in SinkRequests : SubmitRequest(t, request_data)
        \/ \E dur \in TaskDurations, base_ok \in BOOLEAN,
              created \in SUBSET ExpertNames :
               \E inited \in {{}, created} : RunTask(t, dur, base_ok, created, inited)
        \/ WriteBegin(t)
        \/ WriteRead(t)
        \/ WriteOpen(t)
        \/ \E longer_or_equal \in BOOLEAN : WriteFlush(t, longer_or_equal)
        \/ \E limit \in 0..MaxLimit : GetResponses(limit)

SpecSink == Init /\ [][NextSink]_vars

\* The evaluator on arbitrary assessed metrics.
NextQc ==
    \E component \in Components, assessed_metrics \in AssessedMetrics :
        EvaluateMetrics(component, assessed_metrics)

SpecQc == Init /\ [][NextQc]_vars


\* The synthesizer on arbitrary expert results.
NextSynth ==
    \E request_data \in SinkRequests, expert_results \in SynthesisInputs :
        Synthesize(request_data, expert_results)

SpecSynth == Init /\ [][NextSynth]_vars

\* The banding on arbitrary scores.
NextLevel ==
    \E component \in Components, score \in BandScores :
        DetermineQualityLevel(component, score)

SpecLevel == Init /\ [][NextLevel]_vars

\* The timeliness rule on arbitrary durations.
NextTimeliness ==
    \E agent_result \in TimedResults, original_request \in SinkRequests :
        AssessTimeliness(agent_result, original_request)

SpecTimeliness == Init /\ [][NextTimeliness]_vars

\* The accuracy rules of the experts on arbitrary results; the rules read the
\* request's description and use it for nothing.
NextAccuracy ==
    \E e \in ExpertNames, agent_result \in AccuracyResults :
        AssessAccuracy(e, agent_result, [description |-> ""])

SpecAccuracy == Init /\ [][NextAccuracy]_vars

\* The requests of the runs that start after the delegation loop.
DegradedRequests == {r \in SinkRequests : r.request_type = "general"}

\* The pipeline from the synthesis on, for arbitrary delegation results.
NextDegraded ==
    \/ Initialize(TRUE, ExpertNames, ExpertNames)
    \/ \E request_data \in DegradedRequests, expert_results \in DelegatedInputs :
           ProcessFrom(request_data, expert_results)

SpecDegraded == Init /\ [][NextDegraded]_vars

\* The generators on arbitrary descriptions.
NextGenerate ==
    \E e \in ExpertNames, description \in GroupDescriptions :
        GenerateAnalysis(e, description)

SpecGenerate == Init /\ [][NextGenerate]_vars

\* The orchestrator, initialized with an empty registry, with one expert or
\* with the three experts, and its process on every request.
NextRequests ==
    \/ \E created \in {{}, {"utility"}, ExpertNames} :
           Initialize(TRUE, created, created)
    \/ \E request_data \in Requests : Process(request_data, 0)

SpecRequests == Init /\ [][NextRequests]_vars

\* The step of background task t that runs the orchestrator.
RunStep(t) ==
    \E dur \in TaskDurations, base_ok \in BOOLEAN :
        RunTask(t, dur, base_ok, ExpertNames, ExpertNames)

\* The steps of background task t inside write_response.
WriteStep(t) ==
    \/ WriteBegin(t)
    \/ WriteRead(t)
    \/ WriteOpen(t)
    \/ \E longer_or_equal \in BOOLEAN : WriteFlush(t, longer_or_equal)

\* RunStep(t) as the position of the tasks shows it: the accepted task t
\* reaches its call of write_response.  It is enabled exactly when RunStep(t)
\* is, and the steps that change task_pc this way are the RunStep(t) steps.
RunStepPosition(t) ==
    /\ task_pc[t] = "accepted"
    /\ task_pc' = [task_pc EXCEPT ![t] = "write"]

\* The HTTP service with its event loop: clients submit requests when they
\* like, and the loop keeps running every accepted background task, whose
\* awaits on the orchestrator and on the file all complete.
NextTasks ==
    \E t \in Tasks :
        \/ \E request_data \in SinkRequests : SubmitRequest(t, request_data)
        \/ RunStep(t)
        \/ WriteStep(t)

SpecTasks ==
    /\ Init
    /\ [][NextTasks]_vars
    /\ \A t \in Tasks : WF_task_pc(RunStepPosition(t)) /\ WF_vars(WriteStep(t))

(***************************************************************************)
(* Properties                                                              *)
(***************************************************************************)

\* A step that is one call of process, or of the end of process.
ProcessCall ==
    /\ last_call'.n = last_call.n + 1
    /\ last_call'.op \in {"process", "finish"}

\* The call of this step evaluated its synthesis, logged the workflow and
\* found the synthesis report approved for publication.
ApprovedCall ==
    /\ ProcessCall
    /\ Len(workflow_history') = Len(workflow_history) + 1
    /\ workflow_history'[Len(workflow_history')].approved

C2_NoLostRecord ==
    (\A t \in Tasks : task_pc[t] \in {"idle", "accepted", "done"})
        => \A t \in Tasks :
               task_result[t] = "True"
                   => /\ file_valid
                      /\ \E i \in 1..Len(file_content) :
                             file_content[i].processing_id = t

\* The experts the router selects for the request of this step's call.
SelectedNow ==
    LET required == determine_required_experts(expert_agents, last_call'.request).required
    IN  {required[i] : i \in 1..Len(required)}

\* C3: a call of process on an initialized orchestrator returns a completed
\* response whatever its experts do: every selected expert is invoked once,
\* an expert that failed has the slot {error, expert_agent, status "failed"},
\* an expert that succeeded has its analysis, and nothing is raised.
C3_ExpertFailureIsolated ==
    [][(/\ last_call'.n = last_call.n + 1
        /\ last_call'.op = "process"
        /\ is_initialized)
           => /\ last_call'.outcome = "returned"
              /\ last_call'.response.status = "completed"
              /\ DOMAIN last_call'.response.expert_results = SelectedNow
              /\ \A e \in SelectedNow :
                     LET slot == last_call'.response.expert_results[e]
                         failed == processing_stats'[e].failed_requests
                                       = processing_stats[e].failed_requests + 1
                     IN  /\ processing_stats'[e].total_requests
                                = processing_stats[e].total_requests + 1
                         /\ failed => /\ DOMAIN slot = {"error", "expert_agent", "status"}
                                      /\ slot.status = "failed"
                                      /\ slot.expert_agent = e
                         /\ ~failed => /\ "error" \notin DOMAIN slot
                                       /\ "quality_report" \in DOMAIN slot
                                       /\ processing_stats'[e].failed_requests
                                              = processing_stats[e].failed_requests]_vars

\* C3 witness: process returned a completed response in which the first
\* selected expert failed and a later one delivered its analysis.
C3_Witness ==
    /\ last_call.op = "process"
    /\ last_call.outcome = "returned"
    /\ last_call.response.status = "completed"
    /\ DOMAIN last_call.response.expert_results = {"financial", "vehicle"}
    /\ "error" \in DOMAIN last_call.response.expert_results["financial"]
    /\ "quality_report" \in DOMAIN last_call.response.expert_results["vehicle"]
    /\ last_call.response.synthesis.failed_experts = 1

C10_UninitializedRejected ==
    [][(/\ last_call'.n = last_call.n + 1
        /\ last_call'.op = "process"
        /\ ~is_initialized)
           => /\ last_call'.outcome = "raised"
              /\ UNCHANGED <<processing_stats, workflow_history, publication_queue,
                             expert_agents, is_initialized>>]_vars

\* C10 witness: after a processed request and a cleanup, a second call of
\* process was rejected while experts were registered and the history was
\* not empty.
C10_Witness ==
    /\ last_call.n = 2
    /\ last_call.op = "process"
    /\ last_call.outcome = "raised"
    /\ last_call.error = "Principal agent is not initialized"
    /\ ~is_initialized
    /\ last_call.registry = ExpertNames
    /\ Len(workflow_history) = 1

\* The component thresholds in hundredths: financial 0.75, utility 0.70,
\* vehicle 0.65, orchestrator 0.70, default 0.60.
StatedThreshold ==
    [financial |-> 75, utility |-> 70, vehicle |-> 65, principal |-> 70,
     default |-> 60]

\* C5: in every report, passed_threshold is overall_score >= the component's
\* threshold, approved_for_publication is passed_threshold and
\* overall_score >= 0.70, and so approval implies passing.
C5_ApprovalRule ==
    qc_report.component # "none" =>
        LET report == qc_report.report
            score == report.overall_score
        IN  /\ report.passed_threshold
                   <=> score.num * 100 >= StatedThreshold[qc_report.component] * score.den
            /\ report.approved_for_publication
                   <=> (report.passed_threshold /\ score.num * 100 >= 70 * score.den)
            /\ report.approved_for_publication => report.passed_threshold

\* C5 witness: a report of a component whose threshold is below the floor
\* passed its threshold and is not approved, so the converse fails.
C5_Witness ==
    /\ qc_report.component # "none"
    /\ qc_report.component = "vehicle"
    /\ qc_report.report.passed_threshold
    /\ ~qc_report.report.approved_for_publication
    /\ Len(qc_metrics) = 2

\* C6: the overall score of a report is the weighted mean of its metric
\* scores, sum(score * weight) / sum(weight), when the total weight is
\* positive, and 0 for an empty list or a total weight of 0; it lies in
\* [0, 1]; get_weighted_score of the report is the same number.
C6_WeightedMean ==
    qc_report.component # "none" =>
        LET score == qc_report.report.overall_score
            total_weight ==
                SumTo([i \in 1..Len(qc_metrics) |-> qc_metrics[i].weight],
                      Len(qc_metrics))
            weighted_sum ==
                SumTo([i \in 1..Len(qc_metrics) |->
                          qc_metrics[i].score * qc_metrics[i].weight],
                      Len(qc_metrics))
        IN  /\ score.den > 0
            /\ IF Len(qc_metrics) > 0 /\ total_weight > 0
               THEN score.num * (100 * total_weight) = weighted_sum * score.den
               ELSE score.num = 0
            /\ 0 <= score.num /\ score.num <= score.den
            /\ qc_report.weighted_score.num * score.den
                   = score.num * qc_report.weighted_score.den

\* C6 witness: two metrics of different scores and different positive
\* weights, whose weighted mean differs from their plain mean.
C6_Witness ==
    /\ qc_report.component # "none"
    /\ Len(qc_metrics) = 2
    /\ qc_metrics[1].score = 100 /\ qc_metrics[1].weight = 30
    /\ qc_metrics[2].score = 60 /\ qc_metrics[2].weight = 10
    /\ qc_report.report.overall_score.num * 100 = 90 * qc_report.report.overall_score.den

\* A step that is one direct call of the router.
RouterCall ==
    /\ last_call'.n = last_call.n + 1
    /\ last_call'.op = "select"

\* C7: on a non-empty registry the router returns exactly the registered
\* experts with a matching keyword, and the whole registry when none
\* matches; "general" on the full registry gives all three experts and
\* "utility_management" gives the utility expert alone.
C7_RouterSelection ==
    [][(RouterCall /\ expert_agents # {})
           => LET chosen == {selected'[i] : i \in 1..Len(selected')}
                  request_type == last_call'.request.request_type
                  lowered == lower(request_type)
                  matching ==
                      {e \in expert_agents :
                          \E i \in 1..Len(router_keywords[e]) :
                              Contains(router_keywords[e][i], lowered)}
              IN  /\ Len(selected') = Cardinality(chosen)
                  /\ chosen = IF matching # {} THEN matching ELSE expert_agents
                  /\ (request_type = "general" /\ expert_agents = ExpertNames)
                         => chosen = {"financial", "utility", "vehicle"}
                  /\ (request_type = "utility_management" /\ "utility" \in expert_agents)
                         => chosen = {"utility"}]_vars

\* C7 witness: the router fell back to a registry of two experts for a
\* request type whose only matching keyword list belongs to the expert that
\* is not registered.
C7_Witness ==
    /\ last_call.op = "select"
    /\ last_call.request.request_type = "budget"
    /\ last_call.registry = {"utility", "vehicle"}
    /\ selected = <<"utility", "vehicle">>

\* C8: a router call changes neither the registry nor any expert counter nor
\* any other orchestrator field, and a call repeated with the same request on
\* the same registry returns the same selection, on the fallback path too.
C8_RouterIdempotent ==
    [][RouterCall
           => /\ UNCHANGED <<expert_agents, processing_stats, expert_initialized,
                             is_initialized, workflow_history, publication_queue>>
              /\ (/\ last_call.op = "select"
                  /\ last_call.request = last_call'.request
                  /\ last_call.registry = expert_agents)
                     => selected' = selected]_vars

\* C8 witness: the second of two router calls took the fallback path on the
\* full registry, whose counters are untouched.
C8_Witness ==
    /\ last_call.n = 2
    /\ last_call.op = "select"
    /\ last_call.request.request_type = "unknown"
    /\ last_call.registry = ExpertNames
    /\ selected = ExpertOrder
    /\ expert_agents = ExpertNames
    /\ \A e \in ExpertNames : processing_stats[e].total_requests = 0

\* The tokens that let any expert accept a request type.
OverrideTokens == {"comprehensive_analysis", "multi_domain", "all", "general", "overview"}

\* The domain token of each expert.
DomainToken ==
    [financial |-> "financial_health", utility |-> "utility_management",
     vehicle |-> "vehicle_management"]

\* C9: an expert's process raises the domain mismatch, with no analysis and
\* no success counted, exactly when the lower-cased request type contains
\* neither the expert's domain token nor an override token; otherwise it
\* returns an analysis with an embedded quality report.
C9_DomainGuard ==
    last_call.op = "expert" =>
        LET request_type == lower(last_call.request.request_type)
            accepted ==
                \/ Contains(DomainToken[last_call.expert], request_type)
                \/ \E token \in OverrideTokens : Contains(token, request_type)
        IN  /\ last_call.outcome = "raised" <=> ~accepted
            /\ last_call.outcome = "returned" <=> accepted
            /\ accepted => /\ "quality_report" \in DOMAIN last_call.response
                           /\ "key_issues" \in DOMAIN last_call.response
            /\ ~accepted => /\ last_call.response = <<>>
                            /\ Contains("not suitable for", last_call.error)

\* C9 witness: an expert rejected a request type that the router's keywords
\* would have sent to it.
C9_Witness ==
    /\ last_call.op = "expert"
    /\ last_call.expert = "financial"
    /\ last_call.request.request_type = "budget"
    /\ last_call.outcome = "raised"
    /\ processing_stats["financial"].failed_requests = 1
    /\ processing_stats["financial"].successful_requests = 0


\* C11: a call of an expert's process while the expert's own initialize has
\* not completed raises to the caller.
C11_UninitializedExpertRaises ==
    [][(/\ last_call'.n = last_call.n + 1
        /\ last_call'.op = "expert"
        /\ last_call'.expert \notin expert_initialized)
           => last_call'.outcome = "raised"]_vars

\* C12: a call of process on an initialized orchestrator with the three
\* experts registered, for request_type "comprehensive_analysis", returns
\* three expert slots without an error field and a synthesis that counts 3
\* successful and 0 failed experts.
C12_ComprehensiveRunsAll ==
    [][(/\ last_call'.n = last_call.n + 1
        /\ last_call'.op = "process"
        /\ is_initialized
        /\ expert_agents = ExpertNames
        /\ last_call'.request.request_type = "comprehensive_analysis")
           => /\ last_call'.outcome = "returned"
              /\ DOMAIN last_call'.response.expert_results = ExpertNames
              /\ \A e \in ExpertNames :
                     /\ "error" \notin DOMAIN last_call'.response.expert_results[e]
                     /\ processing_stats'[e].successful_requests
                            = processing_stats[e].successful_requests + 1
              /\ last_call'.response.synthesis.expert_count = 3
              /\ last_call'.response.synthesis.successful_experts = 3
              /\ last_call'.response.synthesis.failed_experts = 0]_vars

\* C12 witness: a comprehensive request was processed with the full registry
\* and every expert delivered an analysis.
C12_Witness ==
    /\ last_call.op = "process"
    /\ last_call.outcome = "returned"
    /\ last_call.request.request_type = "comprehensive_analysis"
    /\ last_call.registry = ExpertNames
    /\ DOMAIN last_call.response.expert_results = ExpertNames
    /\ \A e \in ExpertNames :
           "quality_report" \in DOMAIN last_call.response.expert_results[e]
    /\ last_call.response.synthesis.successful_experts = 3

\* The demo script's utility request: request_type "utility_management" and
\* the description about energy consumption, utility bills and electricity.
UtilityDemoRequest(request_data) ==
    /\ request_data.request_type = "utility_management"
    /\ Contains("electricity", request_data.description)

\* C13: a call of process on an initialized orchestrator with the three
\* experts registered, for the demo script's utility request, returns an
\* envelope in which the utility analysis scores at least 0.70 overall and
\* approved_for_publication is True.
C13_UtilityDemoApproved ==
    [][(/\ last_call'.n = last_call.n + 1
        /\ last_call'.op = "process"
        /\ is_initialized
        /\ expert_agents = ExpertNames
        /\ UtilityDemoRequest(last_call'.request))
           => /\ last_call'.outcome = "returned"
              /\ FracGE(last_call'.response.expert_results["utility"]
                            .quality_report.overall_score, 70)
              /\ last_call'.response.approved_for_publication]_vars

\* C14: get_responses(limit) with a limit >= 0 on a well-formed store returns
\* the trailing min(limit, number of records) records in stored order, so
\* never more than limit; no file or an empty file gives the empty list.
C14_TrailingLimit ==
    (probe.op = "get_responses" /\ probe.valid)
        => LET n == IF probe.exists THEN Len(probe.stored) ELSE 0
               k == IF probe.limit < n THEN probe.limit ELSE n
           IN  /\ Len(probe.result) = k
               /\ Len(probe.result) <= probe.limit
               /\ \A i \in 1..k : probe.result[i] = probe.stored[n - k + i]

\* C15: the sink is append-only.  The array a write_response call rewrites
\* the file with is the stored array followed by the new record, which
\* carries the server's timestamp and the caller's other fields; a call that
\* returns True leaves exactly that array stored; a call ends with True or
\* False, never with an exception.
C15_AppendOnly ==
    [][\A t \in Tasks :
           /\ (task_pc[t] = "append" /\ task_pc'[t] = "opened")
                  => /\ task_existing'[t] = Append(file_content, task_record[t])
                     /\ task_record[t].timestamp = now_utc_isoformat
           /\ (task_result[t] = "none" /\ task_result'[t] = "True")
                  => /\ file_valid'
                     /\ file_content' = task_existing[t]
           /\ task_result'[t] \in {"none", "True", "False"}]_vars

\* What one entry of a dict of expert results gives to the merged list.
Contribution(expert_results, e) ==
    IF e \in DOMAIN expert_results
       /\ "error" \notin DOMAIN expert_results[e]
       /\ "recommendations" \in DOMAIN expert_results[e]
    THEN expert_results[e].recommendations
    ELSE <<>>

\* C16: the synthesizer's recommendation list is the concatenation, in the
\* iteration order of the expert results, of the recommendations of every
\* result without an error key; nothing is dropped or deduplicated and
\* results with an error key give nothing.
C16_PureConcatenation ==
    probe.op = "synthesize" =>
        probe.synthesis.recommendations
            = Contribution(probe.expert_results, "financial")
              \o Contribution(probe.expert_results, "utility")
              \o Contribution(probe.expert_results, "vehicle")

\* C16 witness: two experts gave the same string, a third entry carried an
\* error key with a recommendation, and the merged list holds the shared
\* string twice and nothing of the failed entry.
C16_Witness ==
    /\ probe.op = "synthesize"
    /\ DOMAIN probe.expert_results = ExpertNames
    /\ probe.expert_results["financial"]
           = [recommendations |-> <<"Switch to energy-efficient appliances">>]
    /\ probe.expert_results["utility"]
           = [error |-> "failure", recommendations |-> <<"Retry later">>]
    /\ probe.expert_results["vehicle"]
           = [recommendations |-> <<"Switch to energy-efficient appliances">>]
    /\ probe.synthesis.recommendations
           = <<"Switch to energy-efficient appliances",
               "Switch to energy-efficient appliances">>

\* C17: in the synthesis of every completed call of process,
\* successful_experts is the number of expert results without an error key,
\* failed_experts the number with one, and their sum is expert_count, the
\* number of experts the router selected.
C17_SynthesisCounts ==
    [][(/\ last_call'.n = last_call.n + 1
        /\ last_call'.op = "process"
        /\ last_call'.outcome = "returned")
           => LET results == last_call'.response.expert_results
                  synthesis == last_call'.response.synthesis
              IN  /\ "error" \notin DOMAIN synthesis
                  /\ synthesis.successful_experts
                         = Cardinality({e \in DOMAIN results :
                                           "error" \notin DOMAIN results[e]})
                  /\ synthesis.failed_experts
                         = Cardinality({e \in DOMAIN results :
                                           "error" \in DOMAIN results[e]})
                  /\ synthesis.successful_experts + synthesis.failed_experts
                         = synthesis.expert_count
                  /\ synthesis.expert_count = Cardinality(SelectedNow)]_vars

\* C17 witness: a completed call whose synthesis counts one successful and
\* one failed expert among two selected.
C17_Witness ==
    /\ last_call.op = "process"
    /\ last_call.outcome = "returned"
    /\ last_call.response.synthesis.expert_count = 2
    /\ last_call.response.synthesis.successful_experts = 1
    /\ last_call.response.synthesis.failed_experts = 1
    /\ Cardinality(DOMAIN last_call.response.expert_results) = 2

\* The metrics of a report are one metric for each of the seven dimensions.
SevenDimensions(report) ==
    /\ Len(report.metrics) = 7
    /\ {report.metrics[i].dimension : i \in 1..Len(report.metrics)}
           = {"accuracy", "completeness", "relevance", "timeliness",
              "consistency", "clarity", "actionability"}

\* C18: every quality report of a completed call of process, the
\* orchestrator's own and the one embedded in each expert's analysis, holds
\* exactly one metric for each of the seven dimensions.
C18_SevenDimensionsEach ==
    (last_call.op = "process" /\ last_call.outcome = "returned")
        => /\ SevenDimensions(last_call.response.quality_report)
           /\ \A e \in DOMAIN last_call.response.expert_results :
                  "quality_report" \in DOMAIN last_call.response.expert_results[e]
                      => SevenDimensions(
                             last_call.response.expert_results[e].quality_report)

\* The position of a level in its band set, lowest tier first.
TierOf(levels, level) == CHOOSE i \in 1..Len(levels) : levels[i] = level

\* The band set of a component.
BandSet(component) ==
    IF component = "principal" THEN PrincipalLevels ELSE QualityScore

\* The level of the latest banding call is the one its score's band names.
C19_Bands ==
    probe.op = "determine_quality_level"
        => LET levels == BandSet(probe.component)
               s == probe.score
           IN  /\ probe.level = levels[5] <=> FracGE(s, 90)
               /\ probe.level = levels[4] <=> (FracGE(s, 80) /\ ~FracGE(s, 90))
               /\ probe.level = levels[3] <=> (FracGE(s, 70) /\ ~FracGE(s, 80))
               /\ probe.level = levels[2] <=> (FracGE(s, 60) /\ ~FracGE(s, 70))
               /\ probe.level = levels[1] <=> ~FracGE(s, 60)

\* Two banding calls on one component, the second on a higher score: the
\* first level is no higher a tier than the second.
C19_Step ==
    (/\ probe.op = "determine_quality_level"
     /\ probe'.op = "determine_quality_level"
     /\ probe.component = probe'.component
     /\ probe.score.num * probe'.score.den < probe'.score.num * probe.score.den)
        => TierOf(BandSet(probe.component), probe.level)
               <= TierOf(BandSet(probe.component), probe'.level)

\* C19: for both band sets the level of a score is the one of its band
\* (>= 0.9, >= 0.8, >= 0.7, >= 0.6, else, from the highest tier to the
\* lowest), and for scores s1 < s2 the level of s1 is never a higher tier
\* than the level of s2.
C19_BandingMonotonic == []C19_Bands /\ [][C19_Step]_vars

\* A score in [0.89, 0.9) on an expert is banded good, just under excellent.
C19_Witness ==
    /\ probe.op = "determine_quality_level"
    /\ probe.component = "financial"
    /\ FracGE(probe.score, 89)
    /\ probe.level = "good"

\* The score and the issue of the latest timeliness call follow the
\* thresholds on the recorded processing_time, 0 when none is recorded.
C20_Rule ==
    probe.op = "assess_timeliness"
        => LET d == IF "processing_time" \in DOMAIN probe.agent_result
                    THEN probe.agent_result.processing_time ELSE 0
               m == probe.metric
           IN  /\ m.dimension = "timeliness"
               /\ d <= 5 => m.score = 100
               /\ (5 < d /\ d <= 15) => m.score = 80
               /\ (15 < d /\ d <= 30) => m.score = 60
               /\ (30 < d /\ d <= 60) => m.score = 40
               /\ d > 60 => m.score = 20
               /\ Len(m.issues) = (IF d > 15 THEN 1 ELSE 0)
               /\ Len(m.recommendations) = (IF d > 15 THEN 1 ELSE 0)
               /\ d = 45 => /\ m.score = 40
                            /\ m.issues = <<"Response time (45.00s) exceeds optimal threshold">>

\* Two timeliness calls, the second on a longer recorded duration: the score
\* does not increase.
C20_Step ==
    (/\ probe.op = "assess_timeliness"
     /\ probe'.op = "assess_timeliness"
     /\ "processing_time" \in DOMAIN probe.agent_result
     /\ "processing_time" \in DOMAIN probe'.agent_result
     /\ probe.agent_result.processing_time < probe'.agent_result.processing_time)
        => probe'.metric.score <= probe.metric.score

\* C20: the timeliness rule scores a recorded processing_time 1.0 up to 5s,
\* 0.8 up to 15s, 0.6 up to 30s, 0.4 up to 60s and 0.2 beyond, so the score
\* never increases as the duration grows; it emits one issue and one
\* recommendation exactly when the duration exceeds 15s; 45s yields 0.4 with
\* the issue that the threshold was exceeded.
C20_TimelinessRule == []C20_Rule /\ [][C20_Step]_vars

\* A call on a recorded processing_time of 45s.
C20_Witness ==
    /\ probe.op = "assess_timeliness"
    /\ "processing_time" \in DOMAIN probe.agent_result
    /\ probe.agent_result.processing_time = 45
    /\ Len(probe.metric.issues) = 1

\* C21: the accuracy rule of an expert, called on a result whose analysis_type
\* is absent or differs from the expert's own domain tag, scores 0.3 with one
\* issue that names the mismatch, whatever else the result contains.
C21_AccuracyShortCircuit ==
    (/\ probe.op = "assess_accuracy"
     /\ Get(probe.agent_result, "analysis_type", "") # expertise[probe.e])
        => /\ probe.metric.dimension = "accuracy"
           /\ probe.metric.score = 30
           /\ Len(probe.metric.issues) = 1
           /\ Contains("does not match", probe.metric.issues[1])

\* A utility_management analysis that names a financial concept went through
\* the financial expert's rule.
C21_Witness ==
    /\ probe.op = "assess_accuracy"
    /\ probe.e = "financial"
    /\ Get(probe.agent_result, "analysis_type", "") = "utility_management"
    /\ CountIn(financial_accuracy_keywords, lower(str(probe.agent_result))) >= 1
    /\ probe.metric.score = 30

\* C22: the response of every completed call of process carries request_id,
\* processing_time, expert_results, synthesis, the final quality report,
\* approved_for_publication and a publication_status field.
C22_EnvelopeFields ==
    (last_call.op = "process" /\ last_call.outcome = "returned")
        => {"request_id", "processing_time", "expert_results", "synthesis",
            "quality_report", "approved_for_publication", "publication_status"}
               \subseteq DOMAIN last_call.response

\* The score of the accuracy metric in the quality report of a response.
AccuracyOf(response) ==
    LET metrics == response.quality_report.metrics
        i == CHOOSE j \in 1..Len(metrics) : metrics[j].dimension = "accuracy"
    IN  metrics[i].score

\* A completed call of process in which the experts of selection ran and
\* failed of them ended in an error slot.
CompletedRun(call, selection, failed) ==
    /\ call.op = "process"
    /\ call.outcome = "returned"
    /\ DOMAIN call.response.expert_results = selection
    /\ Cardinality(WithError(call.response.expert_results)) = failed

\* C23: of two completed calls of process that ran the same selected experts,
\* the first with every expert succeeding and the second with at least one
\* failing, the second has the strictly lower synthesis accuracy score: 0.2
\* less per failed expert, floored at 0.
C23_FailedExpertsLowerAccuracy ==
    [][\A selection \in SUBSET ExpertNames \ {{}}, failed \in 1..Len(ExpertOrder) :
           (/\ CompletedRun(last_call, selection, 0)
            /\ CompletedRun(last_call', selection, failed))
               => /\ AccuracyOf(last_call'.response)
                         = Max0(AccuracyOf(last_call.response) - 20 * failed)
                  /\ AccuracyOf(last_call'.response) < AccuracyOf(last_call.response)]_vars

\* expert_results with every None-valued key taken away: the results of the
\* same run on which the try body of the synthesizer does not raise.
WithoutNone(expert_results) ==
    [k \in DOMAIN expert_results |->
        [f \in DOMAIN expert_results[k] \ {"none_valued"} |-> expert_results[k][f]]]

GroupsOf(e) ==
    CASE e = "financial" -> financial_groups
      [] e = "utility" -> utility_groups
      [] e = "vehicle" -> vehicle_groups

FallbackOf(e) ==
    CASE e = "financial" -> financial_fallback
      [] e = "utility" -> utility_fallback
      [] e = "vehicle" -> vehicle_fallback

\* The texts a list of effects appends to field f, in order.
FieldItems(adds, f) ==
    LET sel == SelectSeq(adds, LAMBDA a : a[1] = f)
    IN  [i \in 1..Len(sel) |-> sel[i][2]]

\* The groups, in source order, of which a word occurs in text.
MatchingGroups(groups, text) ==
    SelectSeq(groups, LAMBDA g : AnyIn(g.words, text))

\* What the matching groups append to field f, group after group.
RECURSIVE MatchedItems(_, _)
MatchedItems(matching, f) ==
    IF Len(matching) = 0 THEN <<>>
    ELSE FieldItems(matching[1].adds, f) \o MatchedItems(Tail(matching), f)

\* C25: the analysis a generator builds for a description holds, in every
\* list field, what the matching keyword groups append to it, group after
\* group in source order with nothing removed, so key_issues has one entry
\* per matching group; when no group matches it holds what the general
\* fallback appends instead, and only then; key_issues is never empty.
C25_AllMatchingGroupsApplied ==
    probe.op = "generate_analysis"
        => LET matching == MatchingGroups(GroupsOf(probe.e), lower(probe.description))
               analysis == probe.analysis
           IN  /\ \A f \in DOMAIN analysis \cap list_fields :
                      analysis[f] = IF Len(matching) = 0
                                    THEN FieldItems(FallbackOf(probe.e), f)
                                    ELSE MatchedItems(matching, f)
               /\ Len(matching) > 0 => Len(analysis.key_issues) = Len(matching)
               /\ Len(matching) = 0 => Len(analysis.key_issues) = 1
               /\ Len(analysis.key_issues) > 0

\* A description matched three groups of the financial generator, among them
\* one that its upper-case word matches.
C25_Witness ==
    /\ probe.op = "generate_analysis"
    /\ probe.e = "financial"
    /\ probe.description = "budget PORTFOLIO money"
    /\ probe.analysis.key_issues
           = <<"Budget optimization needed",
               "Investment strategy optimization needed",
               "Comprehensive financial health improvement needed">>

\* The step is one completed call of process on request_data.
ProcessStep(request_data) ==
    /\ last_call'.n = last_call.n + 1
    /\ last_call'.op = "process"
    /\ last_call'.outcome = "returned"
    /\ last_call'.request = request_data

\* C26: one completed call of process runs exactly the experts the router
\* selects for the request, once each: total_requests of every selected
\* expert rises by exactly 1, expert_results has exactly one slot per selected
\* expert, and the counters of every other expert are unchanged.
C26_OnlySelectedExpertsRun ==
    [][\A request_data \in Requests :
           ProcessStep(request_data)
               => LET required ==
                          determine_required_experts(expert_agents, request_data).required
                      chosen == {required[i] : i \in 1..Len(required)}
                  IN  /\ Cardinality(chosen) = Len(required)
                      /\ DOMAIN last_call'.response.expert_results = chosen
                      /\ \A e \in chosen :
                             processing_stats'[e].total_requests
                                 = processing_stats[e].total_requests + 1
                      /\ \A e \in ExpertNames \ chosen :
                             processing_stats'[e] = processing_stats[e]]_vars

\* A completed call ran two of three registered experts, one of which
\* rejected the request, and left the third alone.
C26_Witness ==
    /\ last_call.op = "process"
    /\ last_call.outcome = "returned"
    /\ last_call.registry = ExpertNames
    /\ Cardinality(DOMAIN last_call.response.expert_results) = 2
    /\ Cardinality(WithError(last_call.response.expert_results)) = 1
    /\ \E e \in ExpertNames : processing_stats[e].total_requests = 0
    /\ \E e \in ExpertNames : processing_stats[e].failed_requests = 1

\* C27: between calls the counters of every expert satisfy total_requests =
\* successful_requests + failed_requests, and quality_scores holds one score
\* per successful request.
C27_CountersBalance ==
    \A e \in ExpertNames :
        /\ processing_stats[e].total_requests
               = processing_stats[e].successful_requests
                     + processing_stats[e].failed_requests
        /\ Len(processing_stats[e].quality_scores)
               = processing_stats[e].successful_requests

\* An expert accepted one request and its guard rejected another.
C27_Witness ==
    \E e \in ExpertNames :
        /\ processing_stats[e].total_requests = 2
        /\ processing_stats[e].successful_requests = 1
        /\ processing_stats[e].failed_requests = 1
        /\ Len(processing_stats[e].quality_scores) = 1

ApiRequestTypes ==
    {"utility_management", "financial_health", "vehicle_management", "general"}

\* C29: a completed call of process on a request of one of the four API
\* request types has no failed expert slot: every expert the router selected
\* passed its own eligibility guard.
C29_ApiTypesNeverRejected ==
    (/\ last_call.op = "process"
     /\ last_call.outcome = "returned"
     /\ last_call.request.request_type \in ApiRequestTypes)
        => WithError(last_call.response.expert_results) = {}

\* The sink is a well-formed array that holds exactly one record of
\* background task t, and the record tells how the task's call ended:
\* completed with the result, or error with the message.
Recorded(t) ==
    /\ file_exists
    /\ file_valid
    /\ Cardinality({i \in 1..Len(file_content) : file_content[i].processing_id = t}) = 1
    /\ \A i \in 1..Len(file_content) :
           file_content[i].processing_id = t
               => \/ /\ file_content[i].status = "completed"
                     /\ "result" \in DOMAIN file_content[i]
                  \/ /\ file_content[i].status = "error"
                     /\ "error" \in DOMAIN file_content[i]

\* C30: every accepted request leads to a sink that holds, from then on,
\* exactly one record of its background task, completed or error.
C30_AcceptedIsRecorded ==
    \A t \in Tasks : (task_pc[t] = "accepted") ~> []Recorded(t)

====
